---- MODULE Spec2Model ----
(***************************************************************************)
(* Model of the persistence and derived-aggregate layer of my-household:   *)
(* the SQLite-backed services (db/services, monthly version), the          *)
(* IndexedDB-backed web services (db/services-web) and the WebDatabase     *)
(* wrapper (db/database-web.ts).                                           *)
(*                                                                         *)
(* Conventions                                                             *)
(*  - a table / object store is a sequence of records in insertion order;  *)
(*  - money is counted in integer units (the code uses JS numbers);        *)
(*  - a service method is an operator from a database value (and the       *)
(*    values Date.now() returns inside it) to an outcome                   *)
(*    [db, err, ret]: the database it leaves, whether the promise          *)
(*    rejected, and the resolved value as a sequence of 0 or 1 records     *)
(*    (<<>> is null / void).  A method that rejects half-way keeps the     *)
(*    writes it already made: no method runs in a transaction;             *)
(*  - columns no modelled method reads (name of a list, storeLocation,     *)
(*    date of a price entry) are left out of the rows; dueDate is kept on  *)
(*    the expenses createRecurringExpensesForMonth creates.                *)
(***************************************************************************)
EXTENDS Integers, Sequences, FiniteSets, TLC

VARIABLES
    backend,      \* "sqlite" (db/services) or "web" (db/services-web)
    foreignKeys,  \* whether the SQLite build enforces foreign keys
    now,          \* the value Date.now() returns
    db,           \* the tables / object stores
    last          \* the last service call that completed, and what it returned

vars == <<backend, foreignKeys, now, db, last>>

----------------------------------------------------------------------------
(* Bounds of the model *)

\* Date.now() ranges over T0 .. T0 + MaxTicks
MaxTicks == 1
\* rows a table may hold in the grocery specification
MaxItems == 2

T0 == 10
MaxNow == T0 + MaxTicks
\* calls made in a behaviour of the specification of all services
MaxCalls == 2

----------------------------------------------------------------------------
(* Values *)

\* SQL NULL / JS null in a text column
Null == "null"
\* the literal the schema gives created_at / updated_at as default
CURRENT_TIMESTAMP == "CURRENT_TIMESTAMP"
\* Date.now().toString()
IdOf(t) == ToString(t)
\* new Date().toISOString()
ISO(t) == "iso-" \o ToString(t)
\* an id no create generates
AbsentId == "0"
\* JS truthiness of a string | null
Truthy(s) == s # Null /\ s # ""

\* { ...r, ...u }
Merge(r, u) ==
    [k \in DOMAIN r \cup DOMAIN u |-> IF k \in DOMAIN u THEN u[k] ELSE r[k]]

Max(a, b) == IF a >= b THEN a ELSE b

RECURSIVE SumOf(_, _)
\* rows.reduce((sum, r) => sum + r[f], 0), also SQL sum(f)
SumOf(rows, f) ==
    IF rows = <<>> THEN 0 ELSE rows[1][f] + SumOf(Tail(rows), f)

Ok(d, ret) == [db |-> d, err |-> FALSE, ret |-> ret]
Fail(d) == [db |-> d, err |-> TRUE, ret |-> <<>>]

EmptyDb ==
    [expenses |-> <<>>, budgetCategories |-> <<>>, groceryLists |-> <<>>,
     groceryItems |-> <<>>, priceHistory |-> <<>>, financialSettings |-> <<>>,
     monthlySavings |-> <<>>]

----------------------------------------------------------------------------
(* The SQLite store, as drizzle uses it *)

HasId(rows, id) == \E i \in 1..Len(rows) : rows[i].id = id

\* no two rows agree on column c (PRIMARY KEY, UNIQUE INDEX)
UniqueOn(rows, c) ==
    \A i, j \in 1..Len(rows) : rows[i][c] = rows[j][c] => i = j

\* the constraints of the schema on a database value
Constraints(d) ==
    /\ \A tb \in DOMAIN d : UniqueOn(d[tb], "id")
    /\ UniqueOn(d.monthlySavings, "month")
    /\ UniqueOn(d.budgetCategories, "name")
    /\ foreignKeys =>
        /\ \A i \in 1..Len(d.groceryItems) :
              \/ d.groceryItems[i].listId = Null
              \/ HasId(d.groceryLists, d.groceryItems[i].listId)
        /\ \A i \in 1..Len(d.priceHistory) :
              \/ d.priceHistory[i].itemId = Null
              \/ HasId(d.groceryItems, d.priceHistory[i].itemId)

\* ON DELETE cascade, when the build enforces foreign keys
Cascade(d) ==
    IF ~foreignKeys THEN d
    ELSE LET items == SelectSeq(d.groceryItems,
                 LAMBDA r : r.listId = Null \/ HasId(d.groceryLists, r.listId))
             hist == SelectSeq(d.priceHistory,
                 LAMBDA r : r.itemId = Null \/ HasId(items, r.itemId))
         IN [d EXCEPT !.groceryItems = items, !.priceHistory = hist]

\* db.insert(tb).values(row): the row with the column defaults, or a
\* constraint error that leaves the table as it was
SqlInsert(d, tb, defaults, row) ==
    LET d2 == [d EXCEPT ![tb] = Append(@, Merge(defaults, row))]
    IN IF Constraints(d2) THEN [ok |-> TRUE, db |-> d2]
       ELSE [ok |-> FALSE, db |-> d]

\* db.update(tb).set(set).where(col = v)
SqlUpdate(d, tb, col, v, set) ==
    LET d2 == [d EXCEPT ![tb] =
                 [i \in 1..Len(@) |->
                     IF @[i][col] = v THEN Merge(@[i], set) ELSE @[i]]]
    IN IF Constraints(d2) THEN [ok |-> TRUE, db |-> d2]
       ELSE [ok |-> FALSE, db |-> d]

\* db.delete(tb).where(col = v)
SqlDelete(d, tb, col, v) ==
    Cascade([d EXCEPT ![tb] = SelectSeq(@, LAMBDA r : r[col] # v)])

\* db.select().from(tb).where(col = v)
SqlSelect(d, tb, col, v) == SelectSeq(d[tb], LAMBDA r : r[col] = v)

----------------------------------------------------------------------------
(* WebDatabase (IndexedDB object stores with keyPath 'id') *)

WebDatabase_getAll(d, storeName) == d[storeName]

\* request.result || null
WebDatabase_get(d, storeName, id) ==
    LET found == SelectSeq(d[storeName], LAMBDA r : r.id = id)
    IN IF found = <<>> THEN <<>> ELSE <<found[1]>>

\* store.put(data) that adds the record without replacing the one stored
\* under its id; a faulty variant of put, to tell C9 apart from
WebDatabase_put_append(d, storeName, data) ==
    [d EXCEPT ![storeName] = Append(@, data)]

\* store.put(data): insert, or replace the record stored under data.id
WebDatabase_put(d, storeName, data) ==
    IF HasId(d[storeName], data.id)
    THEN [d EXCEPT ![storeName] =
            [i \in 1..Len(@) |-> IF @[i].id = data.id THEN data ELSE @[i]]]
    ELSE [d EXCEPT ![storeName] = Append(@, data)]

WebDatabase_delete(d, storeName, id) ==
    [d EXCEPT ![storeName] = SelectSeq(@, LAMBDA r : r.id # id)]

\* getAll(storeName).filter(predicate); every predicate the services pass
\* compares one field with a value: (item) => item[field] === value
WebDatabase_filter(d, storeName, field, value) ==
    SelectSeq(WebDatabase_getAll(d, storeName), LAMBDA item : item[field] = value)

----------------------------------------------------------------------------
(* Column defaults of the SQLite schema *)

ItemDefaults ==
    [listId |-> Null, isPurchased |-> FALSE, createdAt |-> CURRENT_TIMESTAMP,
     updatedAt |-> CURRENT_TIMESTAMP]

HistoryDefaults == [itemId |-> Null, createdAt |-> CURRENT_TIMESTAMP]

----------------------------------------------------------------------------
(* SQLite services: price history, grocery items, grocery lists *)

priceHistoryService_getByItemId(d, itemId) ==
    SqlSelect(d, "priceHistory", "itemId", itemId)

\* t: Date.now() at the call
priceHistoryService_create(d, history, t) ==
    LET newHistory == Merge(history, [id |-> IdOf(t)])
        ins == SqlInsert(d, "priceHistory", HistoryDefaults, newHistory)
    IN IF ins.ok THEN Ok(ins.db, <<newHistory>>) ELSE Fail(d)

\* the rows of the list, each joined with its price history
groceryItemService_getByListId(d, listId) ==
    LET items == SqlSelect(d, "groceryItems", "listId", listId)
    IN [i \in 1..Len(items) |->
          Merge(items[i],
                [priceHistory |-> priceHistoryService_getByItemId(d, items[i].id)])]

groceryItemService_getById(d, id) ==
    LET result == SqlSelect(d, "groceryItems", "id", id)
    IN IF result = <<>> THEN <<>>
       ELSE <<Merge(result[1],
                    [priceHistory |-> priceHistoryService_getByItemId(d, id)])>>

groceryListService_delete(d, id) ==
    Ok(SqlDelete(d, "groceryLists", "id", id), <<>>)

groceryListService_updateTotalCost(d, id) ==
    LET items == groceryItemService_getByListId(d, id)
        totalCost == SumOf(items, "totalCost")
        upd == SqlUpdate(d, "groceryLists", "id", id, [totalCost |-> totalCost])
    IN IF upd.ok THEN Ok(upd.db, <<>>) ELSE Fail(d)

\* t1: Date.now() for the item id, t2: Date.now() for the price entry id
groceryItemService_create(d, item, t1, t2) ==
    LET id == IdOf(t1)
        ins == SqlInsert(d, "groceryItems", ItemDefaults, Merge(item, [id |-> id]))
    IN IF ~ins.ok THEN Fail(d)
       ELSE
         LET ph == priceHistoryService_create(
                       ins.db, [itemId |-> id, price |-> item.pricePerUnit], t2)
         IN IF ph.err THEN Fail(ph.db)
            ELSE
              LET tot == IF Truthy(item.listId)
                         THEN groceryListService_updateTotalCost(ph.db, item.listId)
                         ELSE Ok(ph.db, <<>>)
              IN IF tot.err THEN Fail(tot.db)
                 ELSE Ok(tot.db, groceryItemService_getById(tot.db, id))

groceryItemService_update(d, id, updates, t) ==
    LET updateData == Merge(updates, [updatedAt |-> ISO(t)])
        upd == SqlUpdate(d, "groceryItems", "id", id, updateData)
    IN IF ~upd.ok THEN Fail(d)
       ELSE
         LET item == groceryItemService_getById(upd.db, id)
             tot == IF item # <<>> /\ Truthy(item[1].listId)
                    THEN groceryListService_updateTotalCost(upd.db, item[1].listId)
                    ELSE Ok(upd.db, <<>>)
         IN IF tot.err THEN Fail(tot.db)
            ELSE Ok(tot.db, groceryItemService_getById(tot.db, id))

groceryItemService_delete(d, id) ==
    LET item == groceryItemService_getById(d, id)
        d2 == SqlDelete(d, "groceryItems", "id", id)
        tot == IF item # <<>> /\ Truthy(item[1].listId)
               THEN groceryListService_updateTotalCost(d2, item[1].listId)
               ELSE Ok(d2, <<>>)
    IN IF tot.err THEN Fail(tot.db) ELSE Ok(tot.db, <<>>)

----------------------------------------------------------------------------
(* Web services: price history, grocery items, grocery lists *)

webPriceHistoryService_getByItemId(d, itemId) ==
    WebDatabase_filter(d, "priceHistory", "itemId", itemId)

webPriceHistoryService_create(d, history, t) ==
    LET newHistory == Merge(history, [id |-> IdOf(t), createdAt |-> ISO(t)])
    IN Ok(WebDatabase_put(d, "priceHistory", newHistory), <<newHistory>>)

webGroceryItemService_getByListId(d, listId) ==
    LET items == WebDatabase_filter(d, "groceryItems", "listId", listId)
    IN [i \in 1..Len(items) |->
          Merge(items[i],
                [priceHistory |-> webPriceHistoryService_getByItemId(d, items[i].id)])]

webGroceryListService_update(d, id, updates, t) ==
    LET existing == WebDatabase_get(d, "groceryLists", id)
    IN IF existing = <<>> THEN Ok(d, <<>>)
       ELSE LET updated == Merge(Merge(existing[1], updates),
                                 [updatedAt |-> ISO(t)])
            IN Ok(WebDatabase_put(d, "groceryLists", updated), <<updated>>)

webGroceryListService_delete(d, id) ==
    Ok(WebDatabase_delete(d, "groceryLists", id), <<>>)

webGroceryListService_updateTotalCost(d, id, t) ==
    LET items == webGroceryItemService_getByListId(d, id)
        totalCost == SumOf(items, "totalCost")
    IN Ok(webGroceryListService_update(d, id, [totalCost |-> totalCost], t).db,
          <<>>)

\* t1: Date.now() for the item id, t2: for the price entry id and for the
\* updatedAt of the list
webGroceryItemService_create(d, item, t1, t2) ==
    LET id == IdOf(t1)
        newItem == Merge(item, [id |-> id, createdAt |-> ISO(t1),
                                updatedAt |-> ISO(t1)])
        d1 == WebDatabase_put(d, "groceryItems", newItem)
        d2 == webPriceHistoryService_create(
                  d1, [itemId |-> id, price |-> item.pricePerUnit], t2).db
        d3 == IF Truthy(item.listId)
              THEN webGroceryListService_updateTotalCost(d2, item.listId, t2).db
              ELSE d2
    IN Ok(d3, <<newItem>>)

webGroceryItemService_update(d, id, updates, t) ==
    LET existing == WebDatabase_get(d, "groceryItems", id)
    IN IF existing = <<>> THEN Ok(d, <<>>)
       ELSE
         LET updated == Merge(Merge(existing[1], updates), [updatedAt |-> ISO(t)])
             d1 == WebDatabase_put(d, "groceryItems", updated)
             d2 == IF Truthy(updated.listId)
                   THEN webGroceryListService_updateTotalCost(d1, updated.listId, t).db
                   ELSE d1
         IN Ok(d2, <<updated>>)

webGroceryItemService_delete(d, id, t) ==
    LET item == WebDatabase_get(d, "groceryItems", id)
        d1 == WebDatabase_delete(d, "groceryItems", id)
        d2 == IF item # <<>> /\ Truthy(item[1].listId)
              THEN webGroceryListService_updateTotalCost(d1, item[1].listId, t).db
              ELSE d1
    IN Ok(d2, <<>>)

----------------------------------------------------------------------------
(* Grocery lists and items: the calls, on the backend in use *)

ListIds == {"1", "2"}
\* the ids update and delete are called with: those in the table, and one
\* that is not
ItemIds == {db.groceryItems[i].id : i \in 1..Len(db.groceryItems)} \cup {AbsentId}
Quantities == {1}
Prices == {3}

\* payloads of groceryItemService.create, as the screens build them
NewItems ==
    {[listId |-> l, quantity |-> q, pricePerUnit |-> p, totalCost |-> q * p,
      isPurchased |-> FALSE] : l \in ListIds \cup {Null}, q \in Quantities,
                               p \in Prices}

\* payloads of groceryItemService.update
ItemUpdates ==
    {[quantity |-> 2, totalCost |-> 2 * p] : p \in Prices}
      \cup {[listId |-> l] : l \in ListIds \cup {Null}}

SeedStamp == IF backend = "web" THEN ISO(T0) ELSE CURRENT_TIMESTAMP

SeedList(id, totalCost) ==
    [id |-> id, totalCost |-> totalCost, createdAt |-> SeedStamp,
     updatedAt |-> SeedStamp]

SeedItem(id, listId, q, p) ==
    [id |-> id, listId |-> listId, quantity |-> q, pricePerUnit |-> p,
     totalCost |-> q * p, isPurchased |-> FALSE, createdAt |-> SeedStamp,
     updatedAt |-> SeedStamp]

SeedHistory(itemId, p) ==
    [id |-> itemId \o "_history_1", itemId |-> itemId, price |-> p,
     createdAt |-> SeedStamp]

\* the seeded list with one item and its price entry, and a second, empty
\* list; every total is the sum of its items
GroceryInits ==
    {[EmptyDb EXCEPT !.groceryLists = <<SeedList("1", 3), SeedList("2", 0)>>,
                     !.groceryItems = <<SeedItem("1", "1", 1, 3)>>,
                     !.priceHistory = <<SeedHistory("1", 3)>>]}

\* last: the method, its id argument (for create: the id it generated),
\* whether it rejected, what it resolved to, and the ids of the grocery items
\* it deleted or orphaned (the item of an item delete, the items of the list
\* of a list delete)
NoCall == [op |-> "none", id |-> Null, err |-> FALSE, ret |-> <<>>, gone |-> {}]

Called(op, id, out, gone) ==
    [op |-> op, id |-> id, err |-> out.err, ret |-> out.ret, gone |-> gone]

ItemsOf(d, listId) == SelectSeq(d.groceryItems, LAMBDA r : r.listId = listId)

IdsOf(rows) == {rows[i].id : i \in 1..Len(rows)}

InitGrocery ==
    /\ backend \in {"sqlite", "web"}
    /\ foreignKeys \in (IF backend = "sqlite" THEN BOOLEAN ELSE {FALSE})
    /\ now = T0
    /\ db \in GroceryInits
    /\ last = NoCall

\* time passes between two calls
Tick ==
    /\ now < MaxNow
    /\ now' = now + 1
    /\ UNCHANGED <<backend, foreignKeys, db, last>>

ItemCreate ==
    /\ Len(db.groceryItems) < MaxItems
    /\ \E item \in NewItems, t2 \in now..MaxNow :
          \E out \in {IF backend = "sqlite"
                     THEN groceryItemService_create(db, item, now, t2)
                     ELSE webGroceryItemService_create(db, item, now, t2)} :
             /\ db' = out.db
             /\ now' = t2
             /\ last' = Called("groceryItem.create", IdOf(now), out, {})
    /\ UNCHANGED <<backend, foreignKeys>>

ItemUpdate ==
    /\ \E id \in ItemIds, updates \in ItemUpdates :
          \E out \in {IF backend = "sqlite"
                     THEN groceryItemService_update(db, id, updates, now)
                     ELSE webGroceryItemService_update(db, id, updates, now)} :
             /\ db' = out.db
             /\ last' = Called("groceryItem.update", id, out, {})
    /\ UNCHANGED <<backend, foreignKeys, now>>

ItemDelete ==
    /\ \E id \in ItemIds :
          \E out \in {IF backend = "sqlite"
                     THEN groceryItemService_delete(db, id)
                     ELSE webGroceryItemService_delete(db, id, now)} :
             /\ db' = out.db
             /\ last' = Called("groceryItem.delete", id, out, {id})
    /\ UNCHANGED <<backend, foreignKeys, now>>

ListDelete ==
    /\ \E id \in ListIds :
          \E out \in {IF backend = "sqlite"
                     THEN groceryListService_delete(db, id)
                     ELSE webGroceryListService_delete(db, id)} :
             /\ db' = out.db
             /\ last' = Called("groceryList.delete", id, out, IdsOf(ItemsOf(db, id)))
    /\ UNCHANGED <<backend, foreignKeys, now>>

NextItems == Tick \/ ItemCreate \/ ItemUpdate \/ ItemDelete

\* serial groceryItemService create / update / delete calls
SpecItems == InitGrocery /\ [][NextItems]_vars

NextGrocery == Tick \/ ItemCreate \/ ItemUpdate \/ ItemDelete \/ ListDelete

\* the same, with groceryListService.delete
SpecGrocery == InitGrocery /\ [][NextGrocery]_vars

\* C1: after any serial sequence of grocery item create / update / delete
\* calls from a consistent state, the totalCost of every existing list is the
\* sum of the totalCost of the items whose listId is that list.
C1_ListTotalIsSumOfItems ==
    \A i \in 1..Len(db.groceryLists) :
        db.groceryLists[i].totalCost
            = SumOf(ItemsOf(db, db.groceryLists[i].id), "totalCost")

\* C5: after groceryListService.delete(L) no item with listId = L remains, and
\* after the delete of an item (or of its list) no price entry of that item
\* remains.
C5_DeleteCascades ==
    /\ last.op = "groceryList.delete" => ItemsOf(db, last.id) = <<>>
    /\ last.op \in {"groceryList.delete", "groceryItem.delete"} =>
          \A i \in 1..Len(db.priceHistory) :
              db.priceHistory[i].itemId \notin last.gone

----------------------------------------------------------------------------
(* SQLite services: monthly savings and expenses *)

ExpenseDefaults ==
    [chargeDay |-> 0 - 1, isPaid |-> FALSE, isRecurring |-> FALSE,
     createdAt |-> CURRENT_TIMESTAMP, updatedAt |-> CURRENT_TIMESTAMP]

SavingsDefaults ==
    [totalExpenses |-> 0, totalSaved |-> 0, createdAt |-> CURRENT_TIMESTAMP,
     updatedAt |-> CURRENT_TIMESTAMP]

\* every modelled instant lies in this month
getCurrentMonth == "2025-01"

\* result[0] || null
monthlySavingsService_getByMonth(d, month) ==
    LET result == SqlSelect(d, "monthlySavings", "month", month)
    IN IF result = <<>> THEN <<>> ELSE <<result[1]>>

monthlySavingsService_create(d, data, t) ==
    LET id == data.month \o "-" \o IdOf(t)
        ins == SqlInsert(d, "monthlySavings", SavingsDefaults,
                         Merge(data, [id |-> id]))
    IN IF ins.ok THEN Ok(ins.db, monthlySavingsService_getByMonth(ins.db, data.month))
       ELSE Fail(d)

monthlySavingsService_update(d, month, updates, t) ==
    LET updateData == Merge(updates, [updatedAt |-> ISO(t)])
        upd == SqlUpdate(d, "monthlySavings", "month", month, updateData)
    IN IF upd.ok THEN Ok(upd.db, monthlySavingsService_getByMonth(upd.db, month))
       ELSE Fail(d)

\* a faulty variant of getOrCreateForMonth that seeds a new row with income and
\* savings goal 0 instead of the settings' values
getOrCreateForMonth_unseeded(d, month, t) ==
    LET monthData == monthlySavingsService_getByMonth(d, month)
    IN IF monthData # <<>> THEN Ok(d, monthData)
       ELSE monthlySavingsService_create(d,
                [month |-> month, income |-> 0, savingsGoal |-> 0,
                 totalExpenses |-> 0, totalSaved |-> 0], t)

monthlySavingsService_getOrCreateForMonth(d, month, t) ==
    LET monthData == monthlySavingsService_getByMonth(d, month)
    IN IF monthData # <<>> THEN Ok(d, monthData)
       ELSE LET settings == d.financialSettings
                income == IF settings = <<>> THEN 0 ELSE settings[1].monthlyIncome
                goal == IF settings = <<>> THEN 0 ELSE settings[1].savingsGoal
            IN monthlySavingsService_create(d,
                   [month |-> month, income |-> income, savingsGoal |-> goal,
                    totalExpenses |-> 0, totalSaved |-> 0], t)

\* a faulty variant of updateMonthlyExpenses that stores income - totalExpenses
\* without the clamp
updateMonthlyExpenses_unclamped(d, month, t) ==
    LET totalExpenses == SumOf(SqlSelect(d, "expenses", "month", month), "amount")
        got == monthlySavingsService_getOrCreateForMonth(d, month, t)
    IN IF got.err THEN Fail(got.db)
       ELSE monthlySavingsService_update(got.db, month,
                [totalExpenses |-> totalExpenses,
                 totalSaved |-> got.ret[1].income - totalExpenses], t)

\* a faulty variant of updateMonthlyExpenses that takes the income from the
\* settings row instead of the row of the month
updateMonthlyExpenses_fromSettings(d, month, t) ==
    LET totalExpenses == SumOf(SqlSelect(d, "expenses", "month", month), "amount")
        got == monthlySavingsService_getOrCreateForMonth(d, month, t)
        income == IF d.financialSettings = <<>> THEN 0
                  ELSE d.financialSettings[1].monthlyIncome
    IN IF got.err THEN Fail(got.db)
       ELSE monthlySavingsService_update(got.db, month,
                [totalExpenses |-> totalExpenses,
                 totalSaved |-> Max(0, income - totalExpenses)], t)

monthlySavingsService_updateMonthlyExpenses(d, month, t) ==
    LET totalExpenses == SumOf(SqlSelect(d, "expenses", "month", month), "amount")
        got == monthlySavingsService_getOrCreateForMonth(d, month, t)
    IN IF got.err THEN Fail(got.db)
       ELSE LET totalSaved == got.ret[1].income - totalExpenses
                upd == monthlySavingsService_update(got.db, month,
                           [totalExpenses |-> totalExpenses,
                            totalSaved |-> Max(0, totalSaved)], t)
            IN IF upd.err THEN Fail(upd.db) ELSE Ok(upd.db, <<>>)

expenseService_getByMonth(d, month) == SqlSelect(d, "expenses", "month", month)

expenseService_getById(d, id) ==
    LET result == SqlSelect(d, "expenses", "id", id)
    IN IF result = <<>> THEN <<>> ELSE <<result[1]>>

expenseService_create(d, expense, t) ==
    LET id == IdOf(t)
        month == IF "month" \in DOMAIN expense /\ Truthy(expense.month)
                 THEN expense.month ELSE getCurrentMonth
        newExpense == Merge(expense, [id |-> id, month |-> month])
        ins == SqlInsert(d, "expenses", ExpenseDefaults, newExpense)
    IN IF ~ins.ok THEN Fail(d)
       ELSE LET agg == monthlySavingsService_updateMonthlyExpenses(ins.db, month, t)
            IN IF agg.err THEN Fail(agg.db)
               ELSE Ok(agg.db, expenseService_getById(agg.db, id))

\* a faulty variant of update that reads the expense (and so its month) after the
\* UPDATE statement instead of before it
expenseService_update_readAfter(d, id, updates, t) ==
    LET updateData == Merge(updates, [updatedAt |-> ISO(t)])
        upd == SqlUpdate(d, "expenses", "id", id, updateData)
    IN IF ~upd.ok THEN Fail(d)
       ELSE LET expense == expenseService_getById(upd.db, id)
                agg == IF expense # <<>>
                       THEN monthlySavingsService_updateMonthlyExpenses(
                                upd.db, expense[1].month, t)
                       ELSE Ok(upd.db, <<>>)
            IN IF agg.err THEN Fail(agg.db)
               ELSE Ok(agg.db, expenseService_getById(agg.db, id))

expenseService_update(d, id, updates, t) ==
    LET updateData == Merge(updates, [updatedAt |-> ISO(t)])
        expense == expenseService_getById(d, id)
        upd == SqlUpdate(d, "expenses", "id", id, updateData)
    IN IF ~upd.ok THEN Fail(d)
       ELSE LET agg == IF expense # <<>>
                       THEN monthlySavingsService_updateMonthlyExpenses(
                                upd.db, expense[1].month, t)
                       ELSE Ok(upd.db, <<>>)
            IN IF agg.err THEN Fail(agg.db)
               ELSE Ok(agg.db, expenseService_getById(agg.db, id))

expenseService_delete(d, id, t) ==
    LET expense == expenseService_getById(d, id)
        d2 == SqlDelete(d, "expenses", "id", id)
        agg == IF expense # <<>>
               THEN monthlySavingsService_updateMonthlyExpenses(
                        d2, expense[1].month, t)
               ELSE Ok(d2, <<>>)
    IN IF agg.err THEN Fail(agg.db) ELSE Ok(agg.db, <<>>)

expenseService_getRecurringExpenses(d) ==
    SqlSelect(d, "expenses", "isRecurring", TRUE)

\* JS truthiness of recurring.chargeDay (number | null; null is -1 here)
HasChargeDay(r) == r.chargeDay # 0 - 1 /\ r.chargeDay # 0

\* the offsets of local time from UTC, in minutes east, a device can be set to
TimezoneOffsets == {0 - 300, 0, 120}

\* new Date(year, monthNum - 1, chargeDay).toISOString().split('T')[0], with
\* [year, monthNum] = month.split('-').map(Number): the Date is midnight of
\* that local day, a day past the end of the month rolling over into the next
\* one, and the ISO string is the UTC date of that instant
dueDateOf(month, chargeDay, offset) ==
    LET pad(n) == IF n < 10 THEN "0" \o ToString(n) ELSE ToString(n)
        parts == CHOOSE p \in (2024..2026) \X (1..12) :
                     ToString(p[1]) \o "-" \o pad(p[2]) = month
        daysIn(y, m) ==
            IF m = 2
            THEN (IF y % 4 = 0 /\ (y % 100 # 0 \/ y % 400 = 0) THEN 29 ELSE 28)
            ELSE IF m \in {4, 6, 9, 11} THEN 30 ELSE 31
        RECURSIVE date(_, _, _)
        date(y, m, d) ==
            IF m > 12 THEN date(y + 1, m - 12, d)
            ELSE IF m < 1 THEN date(y - 1, m + 12, d)
            ELSE IF d > daysIn(y, m) THEN date(y, m + 1, d - daysIn(y, m))
            ELSE IF d < 1
                 THEN (IF m = 1 THEN date(y - 1, 12, d + 31)
                       ELSE date(y, m - 1, d + daysIn(y, m - 1)))
            ELSE <<y, m, d>>
        local == date(parts[1], parts[2], chargeDay)
        utc == IF offset > 0 THEN date(local[1], local[2], local[3] - 1)
               ELSE local
    IN ToString(utc[1]) \o "-" \o pad(utc[2]) \o "-" \o pad(utc[3])

RECURSIVE RecurringLoop(_, _, _, _, _, _)
\* the for-loop of createRecurringExpensesForMonth over the templates left,
\* against the expenses read before the loop; every create reads Date.now()
\* once, at t or later.  The set of outcomes [db, err, now] the loop can have.
RecurringLoop(d, recurringExpenses, existingExpenses, month, t, offset) ==
    IF recurringExpenses = <<>> THEN {[db |-> d, err |-> FALSE, now |-> t]}
    ELSE
      LET recurring == Head(recurringExpenses)
          exists == \E i \in 1..Len(existingExpenses) :
                       /\ existingExpenses[i].name = recurring.name
                       /\ existingExpenses[i].category = recurring.category
      IN IF exists \/ ~HasChargeDay(recurring)
         THEN RecurringLoop(d, Tail(recurringExpenses), existingExpenses, month,
                            t, offset)
         ELSE UNION {
                LET out == expenseService_create(d,
                               [name |-> recurring.name,
                                amount |-> recurring.amount,
                                category |-> recurring.category,
                                dueDate |-> dueDateOf(month, recurring.chargeDay,
                                                      offset),
                                month |-> month,
                                chargeDay |-> recurring.chargeDay,
                                isPaid |-> FALSE, isRecurring |-> FALSE], t2)
                IN IF out.err THEN {[db |-> out.db, err |-> TRUE, now |-> t2]}
                   ELSE RecurringLoop(out.db, Tail(recurringExpenses),
                                      existingExpenses, month, t2, offset)
                : t2 \in t..MaxNow }

expenseService_createRecurringExpensesForMonth(d, month, t, offset) ==
    RecurringLoop(d, expenseService_getRecurringExpenses(d),
                  expenseService_getByMonth(d, month), month, t, offset)

----------------------------------------------------------------------------
(* Expenses and monthly savings: the calls (SQLite services) *)

Months == {"2025-01", "2025-02"}
\* the ids update and delete are called with: those in the table, and one
\* that is not
ExpenseIds == {db.expenses[i].id : i \in 1..Len(db.expenses)} \cup {AbsentId}

\* payloads of expenseService.create
NewExpenses ==
    {[name |-> "Rent", category |-> "Housing", amount |-> 4, month |-> m]
        : m \in Months}

\* payloads of expenseService.update
ExpenseUpdates ==
    {[amount |-> 2]} \cup {[month |-> m] : m \in Months}

SeedSettings(income, goal, savings) ==
    [id |-> "default", monthlyIncome |-> income, savingsGoal |-> goal,
     currentSavings |-> savings, createdAt |-> CURRENT_TIMESTAMP,
     updatedAt |-> CURRENT_TIMESTAMP]

SeedSavings(month, income, goal) ==
    [id |-> month \o "_savings", month |-> month, income |-> income,
     totalExpenses |-> 0, totalSaved |-> income, savingsGoal |-> goal,
     createdAt |-> CURRENT_TIMESTAMP, updatedAt |-> CURRENT_TIMESTAMP]

\* no expense yet; the settings row, and the savings row of the current
\* month, created when the income was lower
ExpenseInits ==
    {[EmptyDb EXCEPT !.financialSettings = <<SeedSettings(5, 1, 0)>>,
                     !.monthlySavings = <<SeedSavings(getCurrentMonth, 3, 1)>>]}

\* last: the method, its id argument (for create: the id it generated),
\* whether it rejected, what it resolved to, the month of the expense before
\* the call (as a set, empty when there was no such expense) and the months
\* whose savings row the call recomputed
NoExpenseCall ==
    [op |-> "none", id |-> Null, err |-> FALSE, ret |-> <<>>, was |-> {},
     recomputed |-> {}]

\* the month of the expense with this id (a set: empty when there is none)
MonthsOf(d, id) ==
    {d.expenses[i].month :
        i \in {j \in 1..Len(d.expenses) : d.expenses[j].id = id}}

InitExpense ==
    /\ backend = "sqlite"
    /\ foreignKeys = FALSE
    /\ now = T0
    /\ db \in ExpenseInits
    /\ last = NoExpenseCall

ExpenseCreate ==
    /\ \E expense \in NewExpenses :
        \E out \in {expenseService_create(db, expense, now)} :
             /\ db' = out.db
             /\ last' = [op |-> "expense.create", id |-> IdOf(now),
                         err |-> out.err, ret |-> out.ret, was |-> {},
                         recomputed |-> IF HasId(db.expenses, IdOf(now))
                                        THEN {} ELSE {expense.month}]
    /\ UNCHANGED <<backend, foreignKeys, now>>

ExpenseUpdate ==
    /\ \E id \in ExpenseIds, updates \in ExpenseUpdates :
        \E out \in {expenseService_update(db, id, updates, now)} :
             /\ db' = out.db
             /\ last' = [op |-> "expense.update", id |-> id, err |-> out.err,
                         ret |-> out.ret, was |-> MonthsOf(db, id),
                         recomputed |-> MonthsOf(db, id)]
    /\ UNCHANGED <<backend, foreignKeys, now>>

ExpenseDelete ==
    /\ \E id \in ExpenseIds :
        \E out \in {expenseService_delete(db, id, now)} :
             /\ db' = out.db
             /\ last' = [op |-> "expense.delete", id |-> id, err |-> out.err,
                         ret |-> out.ret, was |-> MonthsOf(db, id),
                         recomputed |-> MonthsOf(db, id)]
    /\ UNCHANGED <<backend, foreignKeys, now>>

\* monthlySavingsService.updateMonthlyExpenses called on its own
SavingsRecompute ==
    /\ \E month \in Months :
        \E out \in {monthlySavingsService_updateMonthlyExpenses(db, month, now)} :
             /\ db' = out.db
             /\ last' = [op |-> "monthlySavings.updateMonthlyExpenses",
                         id |-> month, err |-> out.err, ret |-> out.ret,
                         was |-> {}, recomputed |-> {month}]
    /\ UNCHANGED <<backend, foreignKeys, now>>

NextExpense ==
    Tick \/ ExpenseCreate \/ ExpenseUpdate \/ ExpenseDelete \/ SavingsRecompute

SpecExpense == InitExpense /\ [][NextExpense]_vars

\* the monthly savings row of month M holds the sum of the amounts of the
\* expenses of M
TotalMatches(M) ==
    LET row == monthlySavingsService_getByMonth(db, M)
    IN /\ row # <<>>
       /\ row[1].totalExpenses = SumOf(expenseService_getByMonth(db, M), "amount")

ExpenseOps == {"expense.create", "expense.update", "expense.delete"}

\* the months of the expense the last call was about, before and after it
MonthsBefore == last.was
MonthsAfter == MonthsOf(db, last.id)

\* C2: after an expense create / update / delete, every month that was the
\* month of the affected expense before or after the call has its
\* totalExpenses equal to the sum of the amounts of the expenses of that month.
C2_AffectedMonthsRecomputed ==
    last.op \in ExpenseOps /\ ~last.err =>
        \A M \in MonthsBefore \cup MonthsAfter : TotalMatches(M)

\* C3: after update or delete of an expense stored in month A (also an update
\* that moves it to another month), the savings row of A holds the sum of the
\* amounts of the expenses that remain in A.
C3_PreMutationMonthRecomputed ==
    last.op \in {"expense.update", "expense.delete"} =>
        \A A \in MonthsBefore : TotalMatches(A)

\* an update has moved an expense out of a month in which another expense
\* remains, or a delete has removed one
C3_Witness ==
    \/ /\ last.op = "expense.update"
       /\ MonthsBefore # {} /\ MonthsBefore # MonthsAfter
       /\ \E A \in MonthsBefore : expenseService_getByMonth(db, A) # <<>>
    \/ /\ last.op = "expense.delete"
       /\ MonthsBefore # {}

\* C4: after updateMonthlyExpenses(M) the row of M has
\* totalSaved = max(0, income - totalExpenses) for the income of that row;
\* totalSaved is never negative and is 0 when totalExpenses >= income.
C4_TotalSavedClamped ==
    \A M \in last.recomputed :
        LET row == monthlySavingsService_getByMonth(db, M)
        IN /\ row # <<>>
           /\ row[1].totalSaved = Max(0, row[1].income - row[1].totalExpenses)
           /\ row[1].totalSaved >= 0
           /\ row[1].totalExpenses >= row[1].income => row[1].totalSaved = 0

\* a recompute has clamped: the expenses of the month exceed its income
C4_Witness ==
    \E M \in last.recomputed :
        LET row == monthlySavingsService_getByMonth(db, M)
        IN /\ row # <<>>
           /\ row[1].income > 0
           /\ row[1].totalExpenses > row[1].income
           /\ row[1].totalSaved = 0

----------------------------------------------------------------------------
(* Recurring expenses: the calls (SQLite services) *)

\* a recurring template, as seedDatabase stores it in the current month
Template(id, name, category, amount, chargeDay) ==
    [id |-> id, name |-> name, category |-> category, amount |-> amount,
     month |-> getCurrentMonth, chargeDay |-> chargeDay, isPaid |-> FALSE,
     isRecurring |-> TRUE, createdAt |-> CURRENT_TIMESTAMP,
     updatedAt |-> CURRENT_TIMESTAMP]

\* the template tables: two different templates; two templates with the same
\* name and category; one template without a charge day beside one with
RecurringInits ==
    {[EmptyDb EXCEPT !.financialSettings = <<SeedSettings(5, 1, 0)>>,
                     !.monthlySavings = <<SeedSavings(getCurrentMonth, 3, 1)>>,
                     !.expenses = tpl] :
        tpl \in {<<Template("2", "Electricity", "Utilities", 85, 15),
                   Template("3", "Internet", "Utilities", 60, 20)>>,
                 <<Template("2", "Electricity", "Utilities", 85, 15),
                   Template("3", "Electricity", "Utilities", 85, 15)>>,
                 <<Template("2", "Electricity", "Utilities", 85, 0 - 1),
                   Template("3", "Internet", "Utilities", 60, 20)>>}}

\* the (name, category) pairs of the rows are pairwise distinct
DistinctPairs(rows) ==
    \A i, j \in 1..Len(rows) :
        rows[i].name = rows[j].name /\ rows[i].category = rows[j].category
            => i = j

\* last: the method, its argument, whether it rejected, the number of
\* expenses it created, the month of the createRecurringExpensesForMonth call
\* made just before it (Null when the call before was another one), and
\* whether the expenses of the month had distinct (name, category) pairs
\* before it
NoRecurringCall ==
    [op |-> "none", id |-> Null, err |-> FALSE, created |-> 0, prev |-> Null,
     distinct |-> TRUE]

InitRecurring ==
    /\ backend = "sqlite"
    /\ foreignKeys = FALSE
    /\ now = T0
    /\ db \in RecurringInits
    /\ last = NoRecurringCall

CreateRecurring ==
    /\ \E month \in Months, offset \in TimezoneOffsets :
        \E out \in expenseService_createRecurringExpensesForMonth(db, month, now,
                                                                 offset) :
             /\ db' = out.db
             /\ now' = out.now
             /\ last' = [op |-> "expense.createRecurringExpensesForMonth",
                         id |-> month, err |-> out.err,
                         created |-> Len(out.db.expenses) - Len(db.expenses),
                         prev |-> IF last.op = "expense.createRecurringExpensesForMonth"
                                  THEN last.id ELSE Null,
                         distinct |-> DistinctPairs(expenseService_getByMonth(db, month))]
    /\ UNCHANGED <<backend, foreignKeys>>

\* expenseService.delete between two createRecurringExpensesForMonth calls
RecurringDelete ==
    /\ \E id \in ExpenseIds :
        \E out \in {expenseService_delete(db, id, now)} :
             /\ db' = out.db
             /\ last' = [op |-> "expense.delete", id |-> id, err |-> out.err,
                         created |-> 0, prev |-> Null, distinct |-> TRUE]
    /\ UNCHANGED <<backend, foreignKeys, now>>

NextRecurring == Tick \/ CreateRecurring \/ RecurringDelete

SpecRecurring == InitRecurring /\ [][NextRecurring]_vars

\* C6: a createRecurringExpensesForMonth(M) call made right after another
\* createRecurringExpensesForMonth(M) call creates no expense.
C6_SecondCallCreatesNothing ==
    last.op = "expense.createRecurringExpensesForMonth" /\ last.prev = last.id
        => last.created = 0

\* C7: after createRecurringExpensesForMonth(M) on a month whose expenses had
\* pairwise distinct (name, category) pairs, the expenses of M still have
\* pairwise distinct (name, category) pairs.
C7_NoDuplicatePairs ==
    last.op = "expense.createRecurringExpensesForMonth" /\ last.distinct
        => DistinctPairs(expenseService_getByMonth(db, last.id))

----------------------------------------------------------------------------
(* Budget categories.  A category name is the sequence of its characters; a
   category id is the sequence of the characters of the slug followed, in the
   SQLite service, by "_" and the month (kept as one element). *)

UpperCase ==
    <<"A", "B", "C", "D", "E", "F", "G", "H", "I", "J", "K", "L", "M", "N",
      "O", "P", "Q", "R", "S", "T", "U", "V", "W", "X", "Y", "Z">>
LowerCase ==
    <<"a", "b", "c", "d", "e", "f", "g", "h", "i", "j", "k", "l", "m", "n",
      "o", "p", "q", "r", "s", "t", "u", "v", "w", "x", "y", "z">>

\* String.prototype.toLowerCase
toLowerCase(s) ==
    [k \in 1..Len(s) |->
        IF \E i \in 1..Len(UpperCase) : UpperCase[i] = s[k]
        THEN LowerCase[CHOOSE i \in 1..Len(UpperCase) : UpperCase[i] = s[k]]
        ELSE s[k]]

\* the characters \s matches
Whitespace == {" ", "\t", "\n"}

RECURSIVE SkipWhitespace(_)
SkipWhitespace(s) ==
    IF s # <<>> /\ Head(s) \in Whitespace THEN SkipWhitespace(Tail(s)) ELSE s

RECURSIVE replaceWhitespace(_)
\* s.replace(/\s+/g, '_')
replaceWhitespace(s) ==
    IF s = <<>> THEN <<>>
    ELSE IF Head(s) \in Whitespace
         THEN <<"_">> \o replaceWhitespace(SkipWhitespace(s))
         ELSE <<Head(s)>> \o replaceWhitespace(Tail(s))

BudgetDefaults ==
    [spent |-> 0, createdAt |-> CURRENT_TIMESTAMP, updatedAt |-> CURRENT_TIMESTAMP]

budgetCategoryService_getById(d, id) ==
    LET result == SqlSelect(d, "budgetCategories", "id", id)
    IN IF result = <<>> THEN <<>> ELSE <<result[1]>>

budgetCategoryService_create(d, category) ==
    LET month == IF "month" \in DOMAIN category /\ Truthy(category.month)
                 THEN category.month ELSE getCurrentMonth
        id == replaceWhitespace(toLowerCase(category.name)) \o <<"_", month>>
        newCategory == Merge(category, [id |-> id, month |-> month])
        ins == SqlInsert(d, "budgetCategories", BudgetDefaults, newCategory)
    IN IF ins.ok THEN Ok(ins.db, budgetCategoryService_getById(ins.db, id))
       ELSE Fail(d)

budgetCategoryService_delete(d, id) ==
    Ok(SqlDelete(d, "budgetCategories", "id", id), <<>>)

webBudgetCategoryService_create(d, category, t) ==
    LET id == replaceWhitespace(toLowerCase(category.name))
        newCategory == Merge(category,
                           [id |-> id, createdAt |-> ISO(t), updatedAt |-> ISO(t)])
    IN Ok(WebDatabase_put(d, "budgetCategories", newCategory), <<newCategory>>)

webBudgetCategoryService_delete(d, id) ==
    Ok(WebDatabase_delete(d, "budgetCategories", id), <<>>)

----------------------------------------------------------------------------
(* Budget categories: the calls *)

Housing == <<"H", "o", "u", "s", "i", "n", "g">>
\* names that differ in case or in their whitespace only, and one that does not
CategoryNames ==
    {Housing, <<"h", "o", "u", "s", "i", "n", "g">>,
     <<"E", "a", "t", " ", "O", "u", "t">>,
     <<"E", "a", "t", " ", "\t", "O", "u", "t">>}
BudgetMonths == {"2025-02", "2025-03"}

\* payloads of budgetCategoryService.create
NewCategories ==
    {[name |-> n, limit |-> 200, month |-> m] :
        n \in CategoryNames, m \in BudgetMonths}

\* the ids delete is called with: those in the table, and one that is not
CategoryIds == IdsOf(db.budgetCategories) \cup {<<"0">>}

\* last: the method, name and month of the payload of a create, whether the
\* call rejected, what it resolved to, and the name and month of the create
\* call made just before it (<<>> when the call before was another one)
NoBudgetCall ==
    [op |-> "none", name |-> <<>>, month |-> Null, err |-> FALSE,
     ret |-> <<>>, prev |-> <<>>]

InitBudget ==
    /\ backend \in {"sqlite", "web"}
    /\ foreignKeys = FALSE
    /\ now = T0
    /\ db = EmptyDb
    /\ last = NoBudgetCall

BudgetCreate ==
    /\ \E category \in NewCategories :
        \E out \in {IF backend = "sqlite"
                    THEN budgetCategoryService_create(db, category)
                    ELSE webBudgetCategoryService_create(db, category, now)} :
             /\ db' = out.db
             /\ last' = [op |-> "budgetCategory.create", name |-> category.name,
                         month |-> category.month, err |-> out.err,
                         ret |-> out.ret,
                         prev |-> IF last.op = "budgetCategory.create"
                                  THEN <<last.name, last.month>> ELSE <<>>]
    /\ UNCHANGED <<backend, foreignKeys, now>>

BudgetDelete ==
    /\ \E id \in CategoryIds :
        \E out \in {IF backend = "sqlite"
                    THEN budgetCategoryService_delete(db, id)
                    ELSE webBudgetCategoryService_delete(db, id)} :
             /\ db' = out.db
             /\ last' = [op |-> "budgetCategory.delete", name |-> <<>>,
                         month |-> Null, err |-> out.err, ret |-> out.ret,
                         prev |-> <<>>]
    /\ UNCHANGED <<backend, foreignKeys, now>>

NextBudget == Tick \/ BudgetCreate \/ BudgetDelete

SpecBudget == InitBudget /\ [][NextBudget]_vars

\* C8: a create with name N and month M that completes stores the category
\* under the id lower-case(N), whitespace runs replaced by "_", then "_" and M
\* ("Housing", "2025-03" gives "housing_2025-03"); a create made right after a
\* create with the same name and month completes without error and leaves
\* exactly one category with that id.
C8_CreateIdAndSecondCreate ==
    last.op = "budgetCategory.create" =>
        LET id == replaceWhitespace(toLowerCase(last.name)) \o <<"_", last.month>>
            rows == SqlSelect(db, "budgetCategories", "id", id)
        IN /\ ~last.err =>
                /\ Len(rows) = 1
                /\ rows[1].name = last.name
           /\ ~last.err /\ last.name = Housing /\ last.month = "2025-03" =>
                HasId(db.budgetCategories,
                      <<"h", "o", "u", "s", "i", "n", "g", "_", "2025-03">>)
           /\ last.prev = <<last.name, last.month>> =>
                /\ ~last.err
                /\ Len(rows) = 1

----------------------------------------------------------------------------
(* WebDatabase on its own: put / delete calls on two object stores *)

STORES == {"expenses", "groceryLists"}
RecordIds == {"1", "2"}
\* the records put is called with
Records == {[id |-> i, name |-> n] : i \in RecordIds, n \in {"Milk", "Rent"}}

\* last: the method, the store, the record put (or, for delete, the id), and
\* whether the store held a record with that id before the call
NoWebCall ==
    [op |-> "none", store |-> Null, data |-> [id |-> Null], existed |-> FALSE]

InitWebDb ==
    /\ backend = "web"
    /\ foreignKeys = FALSE
    /\ now = T0
    /\ db = EmptyDb
    /\ last = NoWebCall

WebPut ==
    /\ \E storeName \in STORES, data \in Records :
          /\ db' = WebDatabase_put(db, storeName, data)
          /\ last' = [op |-> "put", store |-> storeName, data |-> data,
                      existed |-> HasId(db[storeName], data.id)]
    /\ UNCHANGED <<backend, foreignKeys, now>>

WebDelete ==
    /\ \E storeName \in STORES, id \in RecordIds :
          /\ db' = WebDatabase_delete(db, storeName, id)
          /\ last' = [op |-> "delete", store |-> storeName, data |-> [id |-> id],
                      existed |-> HasId(db[storeName], id)]
    /\ UNCHANGED <<backend, foreignKeys, now>>

NextWebDb == WebPut \/ WebDelete

SpecWebDb == InitWebDb /\ [][NextWebDb]_vars

\* C9: after put(collection, E), get(collection, E.id) returns a record equal
\* to E, and getAll(collection) holds exactly one record with the id of E,
\* also when a record with that id was stored before.
C9_PutGetRoundTrip ==
    last.op = "put" =>
        /\ WebDatabase_get(db, last.store, last.data.id) = <<last.data>>
        /\ Len(SelectSeq(WebDatabase_getAll(db, last.store),
                         LAMBDA r : r.id = last.data.id)) = 1

\* a put has replaced a different record stored under the same id, beside
\* another record of the store
C9_Witness ==
    /\ last.op = "put"
    /\ last.existed
    /\ Len(WebDatabase_getAll(db, last.store)) = 2
    /\ last.data.name = "Rent"
    /\ \E i \in 1..Len(db[last.store]) : db[last.store][i].name = "Milk"

----------------------------------------------------------------------------
(* Financial settings services *)

\* settings.f ?? 0
OrZero(settings, f) == IF f \in DOMAIN settings THEN settings[f] ELSE 0

\* result[0] || null
financialSettingsService_get(d) ==
    IF d.financialSettings = <<>> THEN <<>> ELSE <<d.financialSettings[1]>>

financialSettingsService_create(d, settings) ==
    LET newSettings ==
            [id |-> "default", monthlyIncome |-> settings.monthlyIncome,
             savingsGoal |-> settings.savingsGoal,
             currentSavings |-> OrZero(settings, "currentSavings"),
             createdAt |-> Null, updatedAt |-> Null]
        ins == SqlInsert(d, "financialSettings", <<>>, newSettings)
    IN IF ins.ok THEN Ok(ins.db, <<newSettings>>) ELSE Fail(d)

financialSettingsService_update(d, updates, t) ==
    LET updateData == Merge(updates, [updatedAt |-> ISO(t)])
        upd == SqlUpdate(d, "financialSettings", "id", "default", updateData)
    IN IF upd.ok THEN Ok(upd.db, financialSettingsService_get(upd.db))
       ELSE Fail(d)

financialSettingsService_updateSavings(d, amount, t) ==
    financialSettingsService_update(d, [currentSavings |-> amount], t)

\* a faulty variant of getOrCreate that creates without reading first
getOrCreate_alwaysCreates(d) ==
    financialSettingsService_create(d,
        [monthlyIncome |-> 0, savingsGoal |-> 0, currentSavings |-> 0])

financialSettingsService_getOrCreate(d) ==
    LET settings == financialSettingsService_get(d)
    IN IF settings = <<>>
       THEN financialSettingsService_create(d,
                [monthlyIncome |-> 0, savingsGoal |-> 0, currentSavings |-> 0])
       ELSE Ok(d, settings)

webFinancialSettingsService_get(d) ==
    WebDatabase_get(d, "financialSettings", "default")

webFinancialSettingsService_create(d, settings, t) ==
    LET newSettings ==
            Merge(settings,
                  [id |-> "default",
                   currentSavings |-> OrZero(settings, "currentSavings"),
                   createdAt |-> ISO(t), updatedAt |-> ISO(t)])
    IN Ok(WebDatabase_put(d, "financialSettings", newSettings), <<newSettings>>)

webFinancialSettingsService_update(d, updates, t) ==
    LET existing == webFinancialSettingsService_get(d)
    IN IF existing = <<>>
       THEN webFinancialSettingsService_create(d,
                [monthlyIncome |-> OrZero(updates, "monthlyIncome"),
                 savingsGoal |-> OrZero(updates, "savingsGoal"),
                 currentSavings |-> OrZero(updates, "currentSavings")], t)
       ELSE LET updated == Merge(Merge(existing[1], updates),
                                 [updatedAt |-> ISO(t)])
            IN Ok(WebDatabase_put(d, "financialSettings", updated), <<updated>>)

webFinancialSettingsService_updateSavings(d, amount, t) ==
    webFinancialSettingsService_update(d, [currentSavings |-> amount], t)

webFinancialSettingsService_getOrCreate(d, t) ==
    LET settings == webFinancialSettingsService_get(d)
    IN IF settings = <<>>
       THEN webFinancialSettingsService_create(d,
                [monthlyIncome |-> 0, savingsGoal |-> 0, currentSavings |-> 0], t)
       ELSE Ok(d, settings)

----------------------------------------------------------------------------
(* Financial settings: the calls *)

\* payloads of update, as the settings screen builds them
SettingsUpdates ==
    {[monthlyIncome |-> 7], [savingsGoal |-> 2, currentSavings |-> 1]}
\* payloads of create
NewSettings == {[monthlyIncome |-> 7, savingsGoal |-> 2]}
SavingsAmounts == {4}

\* a store without a settings row, and the seeded one
SettingsInits ==
    {EmptyDb,
     [EmptyDb EXCEPT !.financialSettings =
         <<[SeedSettings(5, 1, 0) EXCEPT !.createdAt = SeedStamp,
                                         !.updatedAt = SeedStamp]>>]}

\* last: the method, whether it rejected, what it resolved to, the settings
\* rows before the call, and the method called just before
NoSettingsCall ==
    [op |-> "none", err |-> FALSE, ret |-> <<>>, had |-> <<>>, prev |-> "none"]

SettingsCalled(op, out) ==
    [op |-> op, err |-> out.err, ret |-> out.ret, had |-> db.financialSettings,
     prev |-> last.op]

InitSettings ==
    /\ backend \in {"sqlite", "web"}
    /\ foreignKeys = FALSE
    /\ now = T0
    /\ db \in SettingsInits
    /\ last = NoSettingsCall

SettingsGetOrCreate ==
    /\ \E out \in {IF backend = "sqlite"
                   THEN financialSettingsService_getOrCreate(db)
                   ELSE webFinancialSettingsService_getOrCreate(db, now)} :
          /\ db' = out.db
          /\ last' = SettingsCalled("financialSettings.getOrCreate", out)
    /\ UNCHANGED <<backend, foreignKeys, now>>

SettingsCreate ==
    /\ \E settings \in NewSettings :
        \E out \in {IF backend = "sqlite"
                    THEN financialSettingsService_create(db, settings)
                    ELSE webFinancialSettingsService_create(db, settings, now)} :
          /\ db' = out.db
          /\ last' = SettingsCalled("financialSettings.create", out)
    /\ UNCHANGED <<backend, foreignKeys, now>>

SettingsUpdate ==
    /\ \E updates \in SettingsUpdates :
        \E out \in {IF backend = "sqlite"
                    THEN financialSettingsService_update(db, updates, now)
                    ELSE webFinancialSettingsService_update(db, updates, now)} :
          /\ db' = out.db
          /\ last' = SettingsCalled("financialSettings.update", out)
    /\ UNCHANGED <<backend, foreignKeys, now>>

SettingsUpdateSavings ==
    /\ \E amount \in SavingsAmounts :
        \E out \in {IF backend = "sqlite"
                    THEN financialSettingsService_updateSavings(db, amount, now)
                    ELSE webFinancialSettingsService_updateSavings(db, amount, now)} :
          /\ db' = out.db
          /\ last' = SettingsCalled("financialSettings.updateSavings", out)
    /\ UNCHANGED <<backend, foreignKeys, now>>

NextSettings ==
    \/ Tick
    \/ SettingsGetOrCreate
    \/ SettingsCreate
    \/ SettingsUpdate
    \/ SettingsUpdateSavings

SpecSettings == InitSettings /\ [][NextSettings]_vars

\* C10: getOrCreate on a store with no settings row creates one row with id
\* "default" and monthlyIncome, savingsGoal and currentSavings 0 and returns
\* it; on a store with a row it returns that row and leaves the store as it
\* was; in every reachable state there is at most one settings row.
C10_GetOrCreateSingleton ==
    /\ Len(db.financialSettings) <= 1
    /\ last.op = "financialSettings.getOrCreate" =>
          /\ ~last.err
          /\ last.ret = db.financialSettings
          /\ Len(db.financialSettings) = 1
          /\ last.had = <<>> =>
                /\ db.financialSettings[1].id = "default"
                /\ db.financialSettings[1].monthlyIncome = 0
                /\ db.financialSettings[1].savingsGoal = 0
                /\ db.financialSettings[1].currentSavings = 0
          /\ last.had # <<>> => db.financialSettings = last.had

\* getOrCreate has been called right after the getOrCreate that created the
\* default row, at a later instant
C10_Witness ==
    /\ last.op = "financialSettings.getOrCreate"
    /\ last.prev = "financialSettings.getOrCreate"
    /\ last.had # <<>>
    /\ last.had[1].monthlyIncome = 0
    /\ last.had[1].createdAt \in {Null, ISO(T0)}
    /\ now > T0

----------------------------------------------------------------------------
(* Monthly savings: the calls (SQLite services) *)

\* with and without a settings row
InitSavings ==
    /\ backend = "sqlite"
    /\ foreignKeys = FALSE
    /\ now = T0
    /\ db \in ExpenseInits \cup {EmptyDb}
    /\ last = NoExpenseCall

\* monthlySavingsService.getOrCreateForMonth (initializeCurrentMonth is this
\* call for the current month); last.had is the row of the month before it
SavingsGetOrCreate ==
    /\ \E month \in Months :
        \E out \in {monthlySavingsService_getOrCreateForMonth(db, month, now)} :
             /\ db' = out.db
             /\ last' = [op |-> "monthlySavings.getOrCreateForMonth",
                         id |-> month, err |-> out.err, ret |-> out.ret,
                         had |-> monthlySavingsService_getByMonth(db, month)]
    /\ UNCHANGED <<backend, foreignKeys, now>>

NextSavings ==
    \/ Tick
    \/ SavingsGetOrCreate
    \/ SavingsRecompute
    \/ ExpenseCreate
    \/ SettingsUpdate

SpecSavings == InitSavings /\ [][NextSavings]_vars

\* C11: getOrCreateForMonth(M) returns the row of M unchanged when there is
\* one; otherwise it creates one row of M with the income and savings goal of
\* the settings row (0 without one), totalExpenses 0 and totalSaved 0; no
\* state has two monthly savings rows of one month.
C11_GetOrCreateForMonth ==
    /\ UniqueOn(db.monthlySavings, "month")
    /\ last.op = "monthlySavings.getOrCreateForMonth" =>
          /\ ~last.err
          /\ Len(last.ret) = 1
          /\ SqlSelect(db, "monthlySavings", "month", last.id) = last.ret
          /\ last.had # <<>> => last.ret = last.had
          /\ last.had = <<>> =>
                /\ last.ret[1].month = last.id
                /\ last.ret[1].income =
                      (IF db.financialSettings = <<>> THEN 0
                       ELSE db.financialSettings[1].monthlyIncome)
                /\ last.ret[1].savingsGoal =
                      (IF db.financialSettings = <<>> THEN 0
                       ELSE db.financialSettings[1].savingsGoal)
                /\ last.ret[1].totalExpenses = 0
                /\ last.ret[1].totalSaved = 0

\* getOrCreateForMonth has created the row of a month after the settings
\* were changed
C11_Witness ==
    /\ last.op = "monthlySavings.getOrCreateForMonth"
    /\ last.had = <<>>
    /\ db.financialSettings # <<>>
    /\ last.ret[1].income = 7
    /\ Len(db.monthlySavings) = 2

----------------------------------------------------------------------------
(* Price history *)

\* C12: a grocery item create that completes adds exactly one price entry,
\* with the id of the new item as itemId and its pricePerUnit as price, and
\* leaves the other price entries in place; a step of any other call adds no
\* price entry.
C12_CreateAddsOnePriceEntry ==
    [][/\ (last'.op = "groceryItem.create" /\ ~last'.err
              /\ <<db, last>>' # <<db, last>>) =>
            /\ Len(db'.priceHistory) = Len(db.priceHistory) + 1
            /\ \E i \in 1..Len(db'.priceHistory) :
                  /\ db'.priceHistory[i].itemId = last'.id
                  /\ db'.priceHistory[i].price = last'.ret[1].pricePerUnit
                  /\ \A j \in 1..Len(db'.priceHistory) :
                        db'.priceHistory[j].itemId = last'.id => j = i
       /\ last'.op # "groceryItem.create" =>
            Len(db'.priceHistory) <= Len(db.priceHistory)]_vars

----------------------------------------------------------------------------
(* The remaining methods of the id-keyed services *)

groceryListService_getById(d, id) ==
    LET result == SqlSelect(d, "groceryLists", "id", id)
    IN IF result = <<>> THEN <<>>
       ELSE <<Merge(result[1], [items |-> groceryItemService_getByListId(d, id)])>>

groceryListService_update(d, id, updates, t) ==
    LET updateData == Merge(updates, [updatedAt |-> ISO(t)])
        upd == SqlUpdate(d, "groceryLists", "id", id, updateData)
    IN IF upd.ok THEN Ok(upd.db, groceryListService_getById(upd.db, id))
       ELSE Fail(d)

budgetCategoryService_update(d, id, updates, t) ==
    LET updateData == Merge(updates, [updatedAt |-> ISO(t)])
        upd == SqlUpdate(d, "budgetCategories", "id", id, updateData)
    IN IF upd.ok THEN Ok(upd.db, budgetCategoryService_getById(upd.db, id))
       ELSE Fail(d)

budgetCategoryService_updateSpent(d, id, amount) ==
    LET upd == SqlUpdate(d, "budgetCategories", "id", id, [spent |-> amount])
    IN IF upd.ok THEN Ok(upd.db, <<>>) ELSE Fail(d)

\* a faulty variant of togglePurchased that marks the item purchased whatever
\* it was
togglePurchased_setsTrue(d, id, t) ==
    LET item == groceryItemService_getById(d, id)
    IN IF item = <<>> THEN Ok(d, <<>>)
       ELSE groceryItemService_update(d, id, [isPurchased |-> TRUE], t)

groceryItemService_togglePurchased(d, id, t) ==
    LET item == groceryItemService_getById(d, id)
    IN IF item = <<>> THEN Ok(d, <<>>)
       ELSE groceryItemService_update(d, id,
                [isPurchased |-> ~item[1].isPurchased], t)

\* a field of a payload that may lack it
Undefined == "undefined"
Get(r, f) == IF f \in DOMAIN r THEN r[f] ELSE Undefined

webExpenseService_create(d, expense, t) ==
    LET newExpense ==
            [id |-> IdOf(t), name |-> Get(expense, "name"),
             amount |-> Get(expense, "amount"),
             category |-> Get(expense, "category"),
             isPaid |-> IF "isPaid" \in DOMAIN expense
                        THEN expense.isPaid ELSE FALSE,
             isRecurring |-> IF "isRecurring" \in DOMAIN expense
                             THEN expense.isRecurring ELSE FALSE,
             createdAt |-> ISO(t), updatedAt |-> ISO(t)]
    IN Ok(WebDatabase_put(d, "expenses", newExpense), <<newExpense>>)

\* a faulty variant of the web update that stores the payload also when no
\* record has the id
webService_update_upsert(d, storeName, id, updates, t) ==
    LET existing == WebDatabase_get(d, storeName, id)
        updated == Merge(IF existing = <<>> THEN [id |-> id] ELSE existing[1],
                         Merge(updates, [updatedAt |-> ISO(t)]))
    IN Ok(WebDatabase_put(d, storeName, updated), <<updated>>)

\* webExpenseService.update, and the same code over the other stores in
\* webBudgetCategoryService.update and webGroceryListService.update
webService_update(d, storeName, id, updates, t) ==
    LET existing == WebDatabase_get(d, storeName, id)
    IN IF existing = <<>> THEN Ok(d, <<>>)
       ELSE LET updated == Merge(Merge(existing[1], updates),
                                 [updatedAt |-> ISO(t)])
            IN Ok(WebDatabase_put(d, storeName, updated), <<updated>>)

webGroceryItemService_togglePurchased(d, id, t) ==
    LET item == WebDatabase_get(d, "groceryItems", id)
    IN IF item = <<>> THEN Ok(d, <<>>)
       ELSE webGroceryItemService_update(d, id,
                [isPurchased |-> ~item[1].isPurchased], t)

----------------------------------------------------------------------------
(* The id-keyed services, called through one interface.  A service is named
   by its table / object store. *)

SERVICES == {"expenses", "budgetCategories", "groceryLists", "groceryItems"}

\* <service>.getById(id): the value it resolves to
Service_getById(d, service, id) ==
    IF backend = "sqlite"
    THEN CASE service = "expenses" -> expenseService_getById(d, id)
           [] service = "budgetCategories" -> budgetCategoryService_getById(d, id)
           [] service = "groceryLists" -> groceryListService_getById(d, id)
           [] service = "groceryItems" -> groceryItemService_getById(d, id)
    ELSE LET found == WebDatabase_get(d, service, id)
         IN CASE found = <<>> -> <<>>
              [] found # <<>> /\ service = "groceryLists" ->
                    <<Merge(found[1],
                            [items |-> webGroceryItemService_getByListId(d, id)])>>
              [] found # <<>> /\ service = "groceryItems" ->
                    <<Merge(found[1],
                            [priceHistory |-> webPriceHistoryService_getByItemId(d, id)])>>
              [] OTHER -> found

\* <service>.update(id, updates) at time t
Service_update(d, service, id, updates, t) ==
    IF backend = "sqlite"
    THEN CASE service = "expenses" -> expenseService_update(d, id, updates, t)
           [] service = "budgetCategories" ->
                 budgetCategoryService_update(d, id, updates, t)
           [] service = "groceryLists" -> groceryListService_update(d, id, updates, t)
           [] service = "groceryItems" -> groceryItemService_update(d, id, updates, t)
    ELSE CASE service = "groceryItems" ->
                 webGroceryItemService_update(d, id, updates, t)
           [] service = "groceryLists" ->
                 webGroceryListService_update(d, id, updates, t)
           [] OTHER -> webService_update(d, service, id, updates, t)

\* <service>.delete(id) at time t
Service_delete(d, service, id, t) ==
    IF backend = "sqlite"
    THEN CASE service = "expenses" -> expenseService_delete(d, id, t)
           [] service = "budgetCategories" -> budgetCategoryService_delete(d, id)
           [] service = "groceryLists" -> groceryListService_delete(d, id)
           [] service = "groceryItems" -> groceryItemService_delete(d, id)
    ELSE CASE service = "expenses" -> Ok(WebDatabase_delete(d, "expenses", id), <<>>)
           [] service = "budgetCategories" -> webBudgetCategoryService_delete(d, id)
           [] service = "groceryLists" -> webGroceryListService_delete(d, id)
           [] service = "groceryItems" -> webGroceryItemService_delete(d, id, t)

\* the other mutating method of a service: budgetCategoryService.updateSpent,
\* groceryListService.updateTotalCost, groceryItemService.togglePurchased,
\* monthlySavingsService.update (keyed by month; SQLite only)
Service_mutate(d, service, id, t) ==
    IF backend = "sqlite"
    THEN CASE service = "budgetCategories" -> budgetCategoryService_updateSpent(d, id, 5)
           [] service = "groceryLists" -> groceryListService_updateTotalCost(d, id)
           [] service = "groceryItems" -> groceryItemService_togglePurchased(d, id, t)
           [] service = "monthlySavings" ->
                 monthlySavingsService_update(d, id, [savingsGoal |-> 2], t)
    ELSE CASE service = "budgetCategories" ->
                 webService_update(d, service, id, [spent |-> 5], t)
           [] service = "groceryLists" -> webGroceryListService_updateTotalCost(d, id, t)
           [] service = "groceryItems" -> webGroceryItemService_togglePurchased(d, id, t)

\* the column a service looks its records up by
KeyOf(service) == IF service = "monthlySavings" THEN "month" ELSE "id"

\* the keys a service is called with: those stored, and one that is not
ServiceIds(service) ==
    {db[service][i][KeyOf(service)] : i \in 1..Len(db[service])}
        \cup {IF service = "budgetCategories" THEN <<"0">> ELSE AbsentId}

\* payloads of update: a changed field, a payload with an id, a payload with
\* a createdAt
UpdatePayloads(service) ==
    {CASE service = "expenses" -> [amount |-> 2]
       [] service = "budgetCategories" -> [limit |-> 300]
       [] service = "groceryLists" -> [name |-> "Weekly"]
       [] service = "groceryItems" -> [quantity |-> 2, totalCost |-> 6],
     [id |-> IF service = "budgetCategories" THEN <<"9">> ELSE "9"],
     [createdAt |-> "2020-01-01"]}

\* one record in every store, each created by its service at T0 (the grocery
\* list and its item as seeded)
ServicesInit ==
    LET d0 == [CHOOSE g \in GroceryInits : TRUE EXCEPT
                  !.financialSettings = <<SeedSettings(5, 1, 0)>>]
        expense == [name |-> "Rent", category |-> "Housing", amount |-> 4,
                    month |-> getCurrentMonth]
        category == [name |-> Housing, limit |-> 200, month |-> getCurrentMonth]
    IN IF backend = "sqlite"
       THEN budgetCategoryService_create(
                expenseService_create(d0, expense, T0).db, category).db
       ELSE webBudgetCategoryService_create(
                webExpenseService_create(d0, expense, T0).db, category, T0).db

\* last: the method, the service, the key it was called with, whether the
\* call rejected, what it resolved to, whether a record had the key before
\* the call, the time of the call, and the number of calls made so far
InitServices ==
    /\ backend \in {"sqlite", "web"}
    /\ foreignKeys \in (IF backend = "sqlite" THEN BOOLEAN ELSE {FALSE})
    /\ now = T0
    /\ db = ServicesInit
    /\ last = [op |-> "none", service |-> Null, id |-> Null, err |-> FALSE,
               ret |-> <<>>, existed |-> FALSE, at |-> T0, calls |-> 0]

ServiceCalled(op, service, id, out) ==
    [op |-> op, service |-> service, id |-> id, err |-> out.err,
     ret |-> out.ret, at |-> now, calls |-> last.calls + 1,
     existed |-> \E i \in 1..Len(db[service]) : db[service][i][KeyOf(service)] = id]

GetById ==
    /\ last.calls < MaxCalls
    /\ \E service \in SERVICES :
        \E id \in ServiceIds(service) :
          last' = ServiceCalled("getById", service, id,
                                Ok(db, Service_getById(db, service, id)))
    /\ UNCHANGED <<backend, foreignKeys, now, db>>

Update ==
    /\ last.calls < MaxCalls
    /\ \E service \in SERVICES :
        \E id \in ServiceIds(service), updates \in UpdatePayloads(service) :
          \E out \in {Service_update(db, service, id, updates, now)} :
             /\ db' = out.db
             /\ last' = ServiceCalled("update", service, id, out)
    /\ UNCHANGED <<backend, foreignKeys, now>>

Delete ==
    /\ last.calls < MaxCalls
    /\ \E service \in SERVICES :
        \E id \in ServiceIds(service) :
          \E out \in {Service_delete(db, service, id, now)} :
             /\ db' = out.db
             /\ last' = ServiceCalled("delete", service, id, out)
    /\ UNCHANGED <<backend, foreignKeys, now>>

Mutate ==
    /\ last.calls < MaxCalls
    /\ \E service \in (SERVICES \ {"expenses"})
                        \cup (IF backend = "sqlite" THEN {"monthlySavings"} ELSE {}) :
        \E id \in ServiceIds(service) :
          \E out \in {Service_mutate(db, service, id, now)} :
             /\ db' = out.db
             /\ last' = ServiceCalled("mutate", service, id, out)
    /\ UNCHANGED <<backend, foreignKeys, now>>

NextServices == Tick \/ GetById \/ Update \/ Delete \/ Mutate

SpecServices == InitServices /\ [][NextServices]_vars

\* C13: a getById, update or delete called with an id no record of the
\* service has resolves to null (delete: returns) without error and leaves
\* every table as it was.
C13_NotFoundIsNoOp ==
    [][(/\ last'.op \in {"getById", "update", "delete"}
        /\ ~last'.existed
        /\ last'.calls # last.calls) =>
            /\ db' = db
            /\ ~last'.err
            /\ last'.ret = <<>>]_vars

\* an update and a delete have been called with an id that is not stored,
\* while the other stores hold records
C13_Witness ==
    /\ last.op \in {"update", "delete"}
    /\ last.service \in SERVICES
    /\ ~last.existed
    /\ last.calls = 2
    /\ db.expenses # <<>> /\ db.groceryItems # <<>>

\* C14: an update of a stored record, whatever the payload (also one with an
\* id or a createdAt), leaves the number of records of the collection as it
\* was and the record stored under the same id with the same createdAt.
C14_UpdateKeepsIdAndCreatedAt ==
    [][(/\ last'.op = "update"
        /\ last'.existed
        /\ last'.calls # last.calls) =>
            /\ Len(db'[last'.service]) = Len(db[last'.service])
            /\ \E i \in 1..Len(db[last'.service]) :
                 \E j \in 1..Len(db'[last'.service]) :
                    /\ db[last'.service][i].id = last'.id
                    /\ db'[last'.service][j].id = last'.id
                    /\ db'[last'.service][j].createdAt
                          = db[last'.service][i].createdAt]_vars

\* C15: after a mutating call on a stored record (update, updateSpent,
\* updateTotalCost, togglePurchased, monthlySavingsService.update) that
\* completes, the record has the time of the call as updatedAt.
C15_MutationSetsUpdatedAt ==
    (last.op \in {"update", "mutate"} /\ last.existed /\ ~last.err) =>
        \A i \in 1..Len(db[last.service]) :
            db[last.service][i][KeyOf(last.service)] = last.id =>
                db[last.service][i].updatedAt = ISO(last.at)

----------------------------------------------------------------------------
(* Two creates within one clock tick *)

\* C16: a create that runs in the clock tick of an earlier create of the same
\* service (an item with the id of this tick is already stored) does not
\* fail with a key conflict and does not overwrite the first: it resolves,
\* every stored item is kept as it was and one item is added.
C16_SameTickCreatesDistinct ==
    [][(/\ last'.op = "groceryItem.create"
        /\ <<db, last>>' # <<db, last>>
        /\ IdOf(now) \in IdsOf(db.groceryItems)) =>
           /\ ~last'.err
           /\ Len(db'.groceryItems) = Len(db.groceryItems) + 1
           /\ \A i \in 1..Len(db.groceryItems) :
                 \E j \in 1..Len(db'.groceryItems) :
                     db'.groceryItems[j] = db.groceryItems[i]]_vars

----------------------------------------------------------------------------
(* Budget categories of a new month *)

\* .where(eq(budgetCategories.month, targetMonth)).orderBy(budgetCategories.name),
\* names compared byte by byte (the BINARY collation)
budgetCategoryService_getByMonth(d, month) ==
    LET targetMonth == IF Truthy(month) THEN month ELSE getCurrentMonth
        rows == SqlSelect(d, "budgetCategories", "month", targetMonth)
        bytes == <<"\t", " ", "E", "H", "O", "a", "g", "h", "i", "n", "o",
                   "s", "t", "u">>
        code(c) == CHOOSE k \in 1..Len(bytes) : bytes[k] = c
        RECURSIVE less(_, _)
        less(a, b) ==
            IF b = <<>> THEN FALSE
            ELSE IF a = <<>> THEN TRUE
            ELSE IF Head(a) = Head(b) THEN less(Tail(a), Tail(b))
            ELSE code(Head(a)) < code(Head(b))
        RECURSIVE insert(_, _)
        insert(r, sorted) ==
            IF sorted = <<>> THEN <<r>>
            ELSE IF less(r.name, Head(sorted).name) THEN <<r>> \o sorted
            ELSE <<Head(sorted)>> \o insert(r, Tail(sorted))
        RECURSIVE orderBy(_)
        orderBy(rs) ==
            IF rs = <<>> THEN <<>> ELSE insert(Head(rs), orderBy(Tail(rs)))
    IN orderBy(rows)

RECURSIVE MonthlyBudgetsLoop(_, _, _)
\* for (const category of previousCategories): a create that rejects ends
\* the call, what it created before stays
MonthlyBudgetsLoop(d, month, previousCategories) ==
    IF previousCategories = <<>> THEN Ok(d, <<>>)
    ELSE LET category == Head(previousCategories)
             existingCategory == budgetCategoryService_getByMonth(d, month)
             exists == \E i \in 1..Len(existingCategory) :
                           existingCategory[i].name = category.name
         IN IF exists
            THEN MonthlyBudgetsLoop(d, month, Tail(previousCategories))
            ELSE LET out == budgetCategoryService_create(d,
                                [name |-> category.name, limit |-> category.limit,
                                 spent |-> 0, month |-> month])
                 IN IF out.err THEN Fail(out.db)
                    ELSE MonthlyBudgetsLoop(out.db, month,
                                            Tail(previousCategories))

budgetCategoryService_createMonthlyBudgets(d, month, previousMonth) ==
    IF Truthy(previousMonth)
    THEN MonthlyBudgetsLoop(d, month,
                            budgetCategoryService_getByMonth(d, previousMonth))
    ELSE Ok(d, <<>>)

\* the categories of the current month, one of them spent from
MonthlyBudgetsInit ==
    LET c1 == budgetCategoryService_create(EmptyDb,
                  [name |-> Housing, limit |-> 200, spent |-> 50,
                   month |-> getCurrentMonth])
        c2 == budgetCategoryService_create(c1.db,
                  [name |-> <<"E", "a", "t", " ", "O", "u", "t">>, limit |-> 80,
                   month |-> getCurrentMonth])
    IN c2.db

InitMonthlyBudgets ==
    /\ backend = "sqlite"
    /\ foreignKeys = FALSE
    /\ now = T0
    /\ db = MonthlyBudgetsInit
    /\ last = NoBudgetCall

\* last: the two arguments, whether the call rejected, and the categories
\* stored before the call
CreateMonthlyBudgets ==
    /\ \E month \in Months \cup BudgetMonths,
          previousMonth \in Months \cup {Null} :
        \E out \in {budgetCategoryService_createMonthlyBudgets(db, month,
                                                               previousMonth)} :
             /\ db' = out.db
             /\ last' = [op |-> "budgetCategory.createMonthlyBudgets",
                         month |-> month, previousMonth |-> previousMonth,
                         err |-> out.err, before |-> db.budgetCategories]
    /\ UNCHANGED <<backend, foreignKeys, now>>

NextMonthlyBudgets == Tick \/ BudgetCreate \/ BudgetDelete \/ CreateMonthlyBudgets

SpecMonthlyBudgets == InitMonthlyBudgets /\ [][NextMonthlyBudgets]_vars

\* C18: after createMonthlyBudgets(M, P) with P given, every category of month
\* P has exactly one category of month M with its name; a category the call
\* created has the limit of its source and spent = 0; the categories that
\* were in M are unchanged; the same call made again changes nothing; and a
\* call without P changes nothing.
C18_CreateMonthlyBudgets ==
    last.op = "budgetCategory.createMonthlyBudgets" =>
        LET after == db.budgetCategories
            inM == SqlSelect(db, "budgetCategories", "month", last.month)
            inP == SqlSelect(db, "budgetCategories", "month", last.previousMonth)
            was(r) == \E k \in 1..Len(last.before) : last.before[k] = r
        IN /\ last.previousMonth = Null => after = last.before
           /\ last.previousMonth # Null =>
                /\ \A i \in 1..Len(inP) :
                      Cardinality({j \in 1..Len(inM) :
                                      inM[j].name = inP[i].name}) = 1
                /\ \A j \in 1..Len(inM) :
                      ~was(inM[j]) =>
                          /\ inM[j].spent = 0
                          /\ \E i \in 1..Len(inP) :
                                /\ inP[i].name = inM[j].name
                                /\ inP[i].limit = inM[j].limit
                /\ \A k \in 1..Len(last.before) :
                      last.before[k].month = last.month =>
                          \E j \in 1..Len(inM) : inM[j] = last.before[k]
                /\ budgetCategoryService_createMonthlyBudgets(db, last.month,
                       last.previousMonth).db = db

----------------------------------------------------------------------------
(* Payloads that lack a required field, on the web backend *)

\* what the expense form sends, and the same without its name or its amount
ExpensePayloads ==
    {[name |-> "Rent", amount |-> 4, category |-> "Housing"],
     [amount |-> 4, category |-> "Housing"],
     [name |-> "Rent", category |-> "Housing"]}

InitPayloads ==
    /\ backend = "web"
    /\ foreignKeys = FALSE
    /\ now = T0
    /\ db \in GroceryInits
    /\ last = NoCall

\* last: the method, the payload, whether the call rejected, what it
\* resolved to, and the store before the call
WebExpenseCreate ==
    /\ \E expense \in ExpensePayloads :
        \E out \in {webExpenseService_create(db, expense, now)} :
             /\ db' = out.db
             /\ last' = [op |-> "expense.create", payload |-> expense,
                         err |-> out.err, ret |-> out.ret, before |-> db]
    /\ UNCHANGED <<backend, foreignKeys, now>>

NextPayloads == Tick \/ WebExpenseCreate \/ ItemDelete

SpecPayloads == InitPayloads /\ [][NextPayloads]_vars

\* C20: a create whose payload lacks a required field (an expense without
\* name or without amount) is rejected and leaves the store as it was.
C20_MalformedPayloadRejected ==
    (/\ last.op = "expense.create"
     /\ {"name", "amount", "category"} \ DOMAIN last.payload # {}) =>
        /\ last.err
        /\ db = last.before

----------------------------------------------------------------------------
(* Grocery item calls from a state with a stale list total *)

\* the seed writes the totalCost of its list by hand (127.5 over items that
\* sum to 10.47): list "1" starts with a total that is not the sum of its items
InitStale ==
    /\ backend \in {"sqlite", "web"}
    /\ foreignKeys \in (IF backend = "sqlite" THEN BOOLEAN ELSE {FALSE})
    /\ now = T0
    /\ \E g \in GroceryInits :
          db = [g EXCEPT !.groceryLists = <<SeedList("1", 100), SeedList("2", 0)>>]
    /\ last = NoCall

SpecStale == InitStale /\ [][NextItems]_vars

\* C19: when the totalCost of a list is stale, the next grocery item create /
\* update / delete that completes on an item of that list (one created in it,
\* or one that was in it before the call) leaves the list, if it still
\* exists, with a totalCost equal to the sum over its current items.
C19_NextMutationHeals ==
    [][(/\ last'.op \in {"groceryItem.create", "groceryItem.update",
                         "groceryItem.delete"}
        /\ ~last'.err
        /\ <<db, last>>' # <<db, last>>) =>
           LET was == SqlSelect(db, "groceryItems", "id", last'.id)
               lists == IF last'.op = "groceryItem.create"
                        THEN {last'.ret[1].listId}
                        ELSE {was[i].listId : i \in 1..Len(was)}
           IN \A i \in 1..Len(db.groceryLists) :
                 \A j \in 1..Len(db'.groceryLists) :
                     (/\ db.groceryLists[i].id \in lists
                      /\ db.groceryLists[i].totalCost
                            # SumOf(ItemsOf(db, db.groceryLists[i].id), "totalCost")
                      /\ db'.groceryLists[j].id = db.groceryLists[i].id) =>
                         db'.groceryLists[j].totalCost
                            = SumOf(ItemsOf(db', db'.groceryLists[j].id),
                                    "totalCost")]_vars

----------------------------------------------------------------------------
(* The same calls on the SQLite services and on the web services *)

\* db.sqlite is the SQLite database and db.web the IndexedDB one, with equal
\* contents to begin with: the grocery seed and no financial settings row
InitBoth ==
    /\ backend = "sqlite"
    /\ foreignKeys \in BOOLEAN
    /\ now = T0
    /\ \E g \in GroceryInits : db = [sqlite |-> g, web |-> g]
    /\ last = [op |-> "none", sqlite |-> <<FALSE, <<>>>>, web |-> <<FALSE, <<>>>>]

\* last: the method, and per backend whether the call rejected and what it
\* resolved to
BothSettingsUpdate ==
    /\ \E updates \in SettingsUpdates :
        \E s \in {financialSettingsService_update(db.sqlite, updates, now)},
           w \in {webFinancialSettingsService_update(db.web, updates, now)} :
             /\ db' = [sqlite |-> s.db, web |-> w.db]
             /\ last' = [op |-> "financialSettings.update",
                         sqlite |-> <<s.err, s.ret>>, web |-> <<w.err, w.ret>>]
    /\ UNCHANGED <<backend, foreignKeys, now>>

BothListDelete ==
    /\ \E id \in ListIds :
        \E s \in {groceryListService_delete(db.sqlite, id)},
           w \in {webGroceryListService_delete(db.web, id)} :
             /\ db' = [sqlite |-> s.db, web |-> w.db]
             /\ last' = [op |-> "groceryList.delete",
                         sqlite |-> <<s.err, s.ret>>, web |-> <<w.err, w.ret>>]
    /\ UNCHANGED <<backend, foreignKeys, now>>

BothItemUpdate ==
    /\ \E id \in IdsOf(db.sqlite.groceryItems) \cup IdsOf(db.web.groceryItems)
                    \cup {AbsentId},
          updates \in ItemUpdates :
        \E s \in {groceryItemService_update(db.sqlite, id, updates, now)},
           w \in {webGroceryItemService_update(db.web, id, updates, now)} :
             /\ db' = [sqlite |-> s.db, web |-> w.db]
             /\ last' = [op |-> "groceryItem.update",
                         sqlite |-> <<s.err, s.ret>>, web |-> <<w.err, w.ret>>]
    /\ UNCHANGED <<backend, foreignKeys, now>>

BothItemDelete ==
    /\ \E id \in IdsOf(db.sqlite.groceryItems) \cup IdsOf(db.web.groceryItems)
                    \cup {AbsentId} :
        \E s \in {groceryItemService_delete(db.sqlite, id)},
           w \in {webGroceryItemService_delete(db.web, id, now)} :
             /\ db' = [sqlite |-> s.db, web |-> w.db]
             /\ last' = [op |-> "groceryItem.delete",
                         sqlite |-> <<s.err, s.ret>>, web |-> <<w.err, w.ret>>]
    /\ UNCHANGED <<backend, foreignKeys, now>>

NextBoth ==
    \/ Tick
    \/ BothSettingsUpdate
    \/ BothListDelete
    \/ BothItemUpdate
    \/ BothItemDelete

SpecBoth == InitBoth /\ [][NextBoth]_vars

\* C17: from equal contents, the same serial calls on the SQLite services and
\* on the web services resolve to equal results at every call and leave equal
\* records in the two stores.
C17_BackendsAgree ==
    /\ last.sqlite = last.web
    /\ db.sqlite = db.web

----------------------------------------------------------------------------
(* Updates of a single field of a grocery item *)

\* payloads of groceryItemService.update that change the quantity or the
\* price per unit and nothing else
ItemFieldUpdates == {[quantity |-> 2], [pricePerUnit |-> 4]}

ItemUpdateField ==
    /\ \E id \in ItemIds, updates \in ItemFieldUpdates :
          \E out \in {IF backend = "sqlite"
                     THEN groceryItemService_update(db, id, updates, now)
                     ELSE webGroceryItemService_update(db, id, updates, now)} :
             /\ db' = out.db
             /\ last' = Called("groceryItem.update", id, out, {})
    /\ UNCHANGED <<backend, foreignKeys, now>>

NextItemFields == Tick \/ ItemCreate \/ ItemUpdateField

SpecItemFields == InitGrocery /\ [][NextItemFields]_vars

\* C22: after any sequence of groceryItemService create / update calls, every
\* stored grocery item has totalCost = quantity * pricePerUnit.
C22_TotalCostIsQuantityTimesPrice ==
    \A i \in 1..Len(db.groceryItems) :
        db.groceryItems[i].totalCost
            = db.groceryItems[i].quantity * db.groceryItems[i].pricePerUnit

----------------------------------------------------------------------------
(* togglePurchased *)

\* last: the method, its id argument, whether it rejected, what it resolved
\* to, and the store before the call
ItemToggle ==
    /\ \E id \in ItemIds :
          \E out \in {IF backend = "sqlite"
                     THEN groceryItemService_togglePurchased(db, id, now)
                     ELSE webGroceryItemService_togglePurchased(db, id, now)} :
             /\ db' = out.db
             /\ last' = [op |-> "groceryItem.togglePurchased", id |-> id,
                         err |-> out.err, ret |-> out.ret, before |-> db]
    /\ UNCHANGED <<backend, foreignKeys, now>>

NextToggle == Tick \/ ItemToggle \/ ItemDelete \/ ListDelete

SpecToggle == InitGrocery /\ [][NextToggle]_vars

\* C23: togglePurchased(id) on a stored item resolves, stores the negation
\* of its isPurchased and changes no other field of the item but updatedAt,
\* and the same call made again stores the original isPurchased; on an id
\* that is not stored it resolves to null and changes nothing.
C23_TogglePurchased ==
    last.op = "groceryItem.togglePurchased" =>
        LET was == SqlSelect(last.before, "groceryItems", "id", last.id)
            is == SqlSelect(db, "groceryItems", "id", last.id)
            again == IF backend = "sqlite"
                     THEN groceryItemService_togglePurchased(db, last.id, now)
                     ELSE webGroceryItemService_togglePurchased(db, last.id, now)
        IN /\ ~last.err
           /\ was = <<>> => last.ret = <<>> /\ db = last.before
           /\ was # <<>> =>
                /\ Len(is) = 1
                /\ Len(last.ret) = 1
                /\ last.ret[1].isPurchased = ~was[1].isPurchased
                /\ is[1] = [was[1] EXCEPT !.isPurchased = ~was[1].isPurchased,
                                          !.updatedAt = is[1].updatedAt]
                /\ Len(db.groceryItems) = Len(last.before.groceryItems)
                /\ SqlSelect(again.db, "groceryItems", "id", last.id)[1].isPurchased
                      = was[1].isPurchased

\* a stored item that an earlier call had marked purchased is toggled back in
\* a later clock tick
C23_Witness ==
    /\ last.op = "groceryItem.togglePurchased"
    /\ \E i \in 1..Len(last.before.groceryItems) :
          /\ last.before.groceryItems[i].id = last.id
          /\ last.before.groceryItems[i].isPurchased
          /\ last.before.groceryItems[i].updatedAt = ISO(T0)
    /\ now > T0
    /\ Len(last.ret) = 1

----------------------------------------------------------------------------
(* The dashboard summary *)

\* the object getDashboardData returns; savingsProgress, a quotient times 100,
\* is kept as <<numerator, denominator>>
DashboardData(settings, totalExpenses, totalBudgetLimit, totalBudgetSpent) ==
    [monthlyIncome |-> settings.monthlyIncome,
     totalExpenses |-> totalExpenses,
     remainingIncome |-> settings.monthlyIncome - totalExpenses,
     savingsGoal |-> settings.savingsGoal,
     currentSavings |-> settings.currentSavings,
     savingsProgress |-> IF settings.savingsGoal > 0
                         THEN <<settings.currentSavings * 100, settings.savingsGoal>>
                         ELSE <<0, 1>>,
     totalBudgetLimit |-> totalBudgetLimit,
     totalBudgetSpent |-> totalBudgetSpent,
     remainingBudget |-> totalBudgetLimit - totalBudgetSpent]

financialSettingsService_getDashboardData(d) ==
    LET got == financialSettingsService_getOrCreate(d)
    IN IF got.err THEN Fail(got.db)
       ELSE LET currentMonth == getCurrentMonth
                totalExpenses ==
                    SumOf(SqlSelect(got.db, "expenses", "month", currentMonth),
                          "amount")
                budgetResult ==
                    SqlSelect(got.db, "budgetCategories", "month", currentMonth)
            IN Ok(got.db, <<DashboardData(got.ret[1], totalExpenses,
                                          SumOf(budgetResult, "limit"),
                                          SumOf(budgetResult, "spent"))>>)

webFinancialSettingsService_getDashboardData(d, t) ==
    LET got == webFinancialSettingsService_getOrCreate(d, t)
        recurringExpenses == WebDatabase_filter(got.db, "expenses",
                                                "isRecurring", TRUE)
        categories == WebDatabase_getAll(got.db, "budgetCategories")
    IN Ok(got.db, <<DashboardData(got.ret[1],
                                  SumOf(recurringExpenses, "amount"),
                                  SumOf(categories, "limit"),
                                  SumOf(categories, "spent"))>>)

SettingsGetDashboardData ==
    /\ \E out \in {IF backend = "sqlite"
                   THEN financialSettingsService_getDashboardData(db)
                   ELSE webFinancialSettingsService_getDashboardData(db, now)} :
          /\ db' = out.db
          /\ last' = SettingsCalled("financialSettings.getDashboardData", out)
    /\ UNCHANGED <<backend, foreignKeys, now>>

NextDashboard ==
    \/ Tick
    \/ SettingsGetDashboardData
    \/ SettingsUpdate
    \/ SettingsUpdateSavings

SpecDashboard == InitSettings /\ [][NextDashboard]_vars

\* C24: getDashboardData is read-only: a call leaves every collection as it
\* was, also when no financial settings row is stored.
C24_DashboardIsReadOnly ==
    [][(/\ last'.op = "financialSettings.getDashboardData"
        /\ <<db, last>>' # <<db, last>>) => db' = db]_vars

----------------------------------------------------------------------------
(* The due date of the expenses created from a template *)

\* one template, without a charge day or with one at the start, in the
\* middle or at the end of a month
InitDueDates ==
    /\ backend = "sqlite"
    /\ foreignKeys = FALSE
    /\ now = T0
    /\ \E chargeDay \in {0 - 1, 1, 15, 31} :
          db = [EmptyDb EXCEPT
                  !.financialSettings = <<SeedSettings(5, 1, 0)>>,
                  !.expenses = <<Template("2", "Electricity", "Utilities", 85,
                                          chargeDay)>>]
    /\ last = NoRecurringCall

SpecDueDates == InitDueDates /\ [][NextRecurring]_vars

\* C25: createRecurringExpensesForMonth(M) creates, for every template with
\* a chargeDay d in 1..31 and no expense of its name and category in M, one
\* expense with month M, isRecurring = false, isPaid = false, the amount of
\* the template and the dueDate M-d; for a template without chargeDay it
\* creates none.
C25_RecurringDueDate ==
    [][(/\ last'.op = "expense.createRecurringExpensesForMonth"
        /\ <<db, last>>' # <<db, last>>) =>
          LET M == last'.id
              templates == expenseService_getRecurringExpenses(db)
              before == expenseService_getByMonth(db, M)
              created == SelectSeq(db'.expenses,
                             LAMBDA r : ~HasId(db.expenses, r.id))
              matches(rows, tpl) ==
                  {i \in 1..Len(rows) : /\ rows[i].name = tpl.name
                                        /\ rows[i].category = tpl.category}
          IN \A k \in 1..Len(templates) :
                IF templates[k].chargeDay \in 1..31
                   /\ matches(before, templates[k]) = {}
                THEN /\ Cardinality(matches(created, templates[k])) = 1
                     /\ \A i \in matches(created, templates[k]) :
                           /\ created[i].month = M
                           /\ ~created[i].isRecurring
                           /\ ~created[i].isPaid
                           /\ created[i].amount = templates[k].amount
                           /\ created[i].dueDate
                                 = M \o "-"
                                     \o (IF templates[k].chargeDay < 10
                                         THEN "0" ELSE "")
                                     \o ToString(templates[k].chargeDay)
                ELSE matches(created, templates[k]) = {}]_vars

----------------------------------------------------------------------------
(* Monthly savings rows and a change of the settings *)

\* C29: financialSettingsService.update leaves every monthly savings row as it
\* was, and updateMonthlyExpenses(M) on a month that has a row keeps the
\* income of that row and stores totalSaved = max(0, that income - the
\* expenses of M); a row it creates carries the income of the settings row.
C29_SettingsChangeKeepsMonthRows ==
    [][/\ (/\ last'.op = "financialSettings.update"
           /\ <<db, last>>' # <<db, last>>) =>
              db'.monthlySavings = db.monthlySavings
       /\ (/\ last'.op = "monthlySavings.updateMonthlyExpenses"
           /\ ~last'.err
           /\ <<db, last>>' # <<db, last>>) =>
              LET had == monthlySavingsService_getByMonth(db, last'.id)
                  row == monthlySavingsService_getByMonth(db', last'.id)
                  income == IF had # <<>> THEN had[1].income
                            ELSE IF db.financialSettings = <<>> THEN 0
                            ELSE db.financialSettings[1].monthlyIncome
                  total == SumOf(expenseService_getByMonth(db', last'.id),
                                 "amount")
              IN /\ Len(row) = 1
                 /\ row[1].income = income
                 /\ row[1].totalExpenses = total
                 /\ row[1].totalSaved = Max(0, income - total)]_vars

\* the row of a month was created with income 5, the settings now say 7, and
\* a recompute of that month with an expense of 4 left totalSaved = 5 - 4
C29_Witness ==
    /\ last.op = "monthlySavings.updateMonthlyExpenses"
    /\ db.financialSettings # <<>>
    /\ db.financialSettings[1].monthlyIncome = 7
    /\ \E i \in 1..Len(db.monthlySavings) :
          /\ db.monthlySavings[i].month = last.id
          /\ db.monthlySavings[i].income = 5
          /\ db.monthlySavings[i].totalExpenses = 4
          /\ db.monthlySavings[i].totalSaved = 1

----------------------------------------------------------------------------
(* Updates of a budget category *)

\* payloads of budgetCategoryService.update: a new limit, a new name, a new
\* month
CategoryUpdates ==
    {[limit |-> 300], [name |-> <<"E", "a", "t", " ", "\t", "O", "u", "t">>],
     [month |-> "2025-02"]}

BudgetUpdate ==
    /\ \E id \in CategoryIds, updates \in CategoryUpdates :
        \E out \in {budgetCategoryService_update(db, id, updates, now)} :
             /\ db' = out.db
             /\ last' = [op |-> "budgetCategory.update", name |-> <<>>,
                         month |-> Null, err |-> out.err, ret |-> out.ret,
                         prev |-> <<>>]
    /\ UNCHANGED <<backend, foreignKeys, now>>

NextBudgetIds == Tick \/ BudgetUpdate \/ BudgetDelete \/ CreateMonthlyBudgets

SpecBudgetIds == InitMonthlyBudgets /\ [][NextBudgetIds]_vars

\* C30: every stored budget category has the id made of its name in lower
\* case, whitespace runs replaced by "_", then "_" and its month.
C30_IdIsSlugAndMonth ==
    \A i \in 1..Len(db.budgetCategories) :
        db.budgetCategories[i].id
            = replaceWhitespace(toLowerCase(db.budgetCategories[i].name))
                \o <<"_", db.budgetCategories[i].month>>

----------------------------------------------------------------------------
(* Storage errors.  A call runs with a fault: the awaited store operation of
   the method that the storage engine fails ("none" when it fails none).  The
   operation that fails writes nothing and rejects; no method has a try /
   catch, so the rejection leaves the method at that await. *)

\* a faulty variant of Await in which the method catches the rejection and
\* goes on
Await_swallowed(fault, step, d, out) ==
    IF fault = step THEN Ok(d, <<>>) ELSE out

\* await <step>, out being what the step does when the storage works
Await(fault, step, d, out) ==
    IF fault = step THEN Fail(d) ELSE out

\* groceryItemService.create / webGroceryItemService.create
ItemCreateWithFault(d, item, t1, t2, fault) ==
    LET id == IdOf(t1)
        newItem == Merge(item, [id |-> id, createdAt |-> ISO(t1),
                                updatedAt |-> ISO(t1)])
        ins == SqlInsert(d, "groceryItems", ItemDefaults, Merge(item, [id |-> id]))
        write == Await(fault, "write", d,
                     IF backend = "sqlite"
                     THEN (IF ins.ok THEN Ok(ins.db, <<>>) ELSE Fail(d))
                     ELSE Ok(WebDatabase_put(d, "groceryItems", newItem), <<>>))
    IN IF write.err THEN Fail(write.db)
       ELSE
         LET history == [itemId |-> id, price |-> item.pricePerUnit]
             ph == Await(fault, "priceHistory", write.db,
                       IF backend = "sqlite"
                       THEN priceHistoryService_create(write.db, history, t2)
                       ELSE webPriceHistoryService_create(write.db, history, t2))
         IN IF ph.err THEN Fail(ph.db)
            ELSE
              LET tot == IF Truthy(item.listId)
                         THEN Await(fault, "updateTotalCost", ph.db,
                                  IF backend = "sqlite"
                                  THEN groceryListService_updateTotalCost(
                                           ph.db, item.listId)
                                  ELSE webGroceryListService_updateTotalCost(
                                           ph.db, item.listId, t2))
                         ELSE Ok(ph.db, <<>>)
              IN IF tot.err THEN Fail(tot.db)
                 ELSE IF backend = "sqlite"
                      THEN Await(fault, "read", tot.db,
                               Ok(tot.db, groceryItemService_getById(tot.db, id)))
                      ELSE Ok(tot.db, <<newItem>>)

\* groceryItemService.delete / webGroceryItemService.delete
ItemDeleteWithFault(d, id, t, fault) ==
    LET read == Await(fault, "read", d,
                    Ok(d, IF backend = "sqlite"
                          THEN groceryItemService_getById(d, id)
                          ELSE WebDatabase_get(d, "groceryItems", id)))
    IN IF read.err THEN Fail(read.db)
       ELSE
         LET item == read.ret
             write == Await(fault, "write", d,
                          Ok(IF backend = "sqlite"
                             THEN SqlDelete(d, "groceryItems", "id", id)
                             ELSE WebDatabase_delete(d, "groceryItems", id), <<>>))
         IN IF write.err THEN Fail(write.db)
            ELSE
              LET tot == IF item # <<>> /\ Truthy(item[1].listId)
                         THEN Await(fault, "updateTotalCost", write.db,
                                  IF backend = "sqlite"
                                  THEN groceryListService_updateTotalCost(
                                           write.db, item[1].listId)
                                  ELSE webGroceryListService_updateTotalCost(
                                           write.db, item[1].listId, t))
                         ELSE Ok(write.db, <<>>)
              IN IF tot.err THEN Fail(tot.db) ELSE Ok(tot.db, <<>>)

\* expenseService.create
ExpenseCreateWithFault(d, expense, t, fault) ==
    LET id == IdOf(t)
        month == IF "month" \in DOMAIN expense /\ Truthy(expense.month)
                 THEN expense.month ELSE getCurrentMonth
        newExpense == Merge(expense, [id |-> id, month |-> month])
        ins == SqlInsert(d, "expenses", ExpenseDefaults, newExpense)
        write == Await(fault, "write", d,
                     IF ins.ok THEN Ok(ins.db, <<>>) ELSE Fail(d))
    IN IF write.err THEN Fail(write.db)
       ELSE LET agg == Await(fault, "updateMonthlyExpenses", write.db,
                           monthlySavingsService_updateMonthlyExpenses(
                               write.db, month, t))
            IN IF agg.err THEN Fail(agg.db)
               ELSE Await(fault, "read", agg.db,
                          Ok(agg.db, expenseService_getById(agg.db, id)))

\* last: the method, its id argument (for create: the id it generated), the
\* fault, whether the call rejected, what it resolved to, the store before
\* the call, and the number of calls made so far
ItemCreateFault ==
    /\ last.calls < MaxCalls
    /\ Len(db.groceryItems) < MaxItems
    /\ \E item \in NewItems,
          fault \in {"none", "write", "priceHistory", "updateTotalCost"} :
          /\ fault = "updateTotalCost" => Truthy(item.listId)
          /\ \E out \in {ItemCreateWithFault(db, item, now, now, fault)} :
               /\ db' = out.db
               /\ last' = [op |-> "groceryItem.create", id |-> IdOf(now),
                           fault |-> fault, err |-> out.err, ret |-> out.ret,
                           before |-> db, calls |-> last.calls + 1]
    /\ UNCHANGED <<backend, foreignKeys, now>>

ItemDeleteFault ==
    /\ last.calls < MaxCalls
    /\ \E id \in ItemIds, fault \in {"none", "read", "write", "updateTotalCost"} :
          /\ fault = "updateTotalCost" =>
                \E i \in 1..Len(db.groceryItems) :
                    /\ db.groceryItems[i].id = id
                    /\ Truthy(db.groceryItems[i].listId)
          /\ \E out \in {ItemDeleteWithFault(db, id, now, fault)} :
               /\ db' = out.db
               /\ last' = [op |-> "groceryItem.delete", id |-> id,
                           fault |-> fault, err |-> out.err, ret |-> out.ret,
                           before |-> db, calls |-> last.calls + 1]
    /\ UNCHANGED <<backend, foreignKeys, now>>

ExpenseCreateFault ==
    /\ last.calls < MaxCalls
    /\ backend = "sqlite"
    /\ \E expense \in NewExpenses,
          fault \in {"none", "write", "updateMonthlyExpenses", "read"} :
          \E out \in {ExpenseCreateWithFault(db, expense, now, fault)} :
               /\ db' = out.db
               /\ last' = [op |-> "expense.create", id |-> IdOf(now),
                           fault |-> fault, err |-> out.err, ret |-> out.ret,
                           before |-> db, calls |-> last.calls + 1]
    /\ UNCHANGED <<backend, foreignKeys, now>>

InitFaults ==
    /\ backend \in {"sqlite", "web"}
    /\ foreignKeys \in (IF backend = "sqlite" THEN BOOLEAN ELSE {FALSE})
    /\ now = T0
    /\ db \in GroceryInits
    /\ last = [op |-> "none", id |-> Null, fault |-> "none", err |-> FALSE,
               ret |-> <<>>, before |-> db, calls |-> 0]

NextFaults == Tick \/ ItemCreateFault \/ ItemDeleteFault \/ ExpenseCreateFault

SpecFaults == InitFaults /\ [][NextFaults]_vars

\* C21: a call in which a store operation failed rejects: it does not resolve
\* to a record, to null or to void.
C21_StorageErrorPropagates ==
    last.fault # "none" => last.err /\ last.ret = <<>>

\* the list-total write of a create failed after the item was written, and
\* the create rejected
C21_Witness ==
    /\ last.op = "groceryItem.create"
    /\ last.fault = "updateTotalCost"
    /\ last.err
    /\ HasId(db.groceryItems, last.id)
    /\ ~HasId(last.before.groceryItems, last.id)

\* C28: a create whose price-history insert, list-total write or monthly
\* savings recompute failed with a storage error leaves the store as it was
\* before the call.
C28_FailedCreateLeavesStore ==
    (/\ last.op \in {"groceryItem.create", "expense.create"}
     /\ last.fault \in {"priceHistory", "updateTotalCost",
                        "updateMonthlyExpenses"}) =>
        db = last.before

----------------------------------------------------------------------------
(* Two getOrCreateForMonth calls in flight.  Here last[p] is the call of
   caller p: where it stands (pc names the await it is at), its argument and
   the settings it has read; a step runs one call from one await to the
   next. *)

Callers == {1, 2}

InitLazyCreate ==
    /\ backend = "sqlite"
    /\ foreignKeys = FALSE
    /\ now = T0
    /\ db = [EmptyDb EXCEPT !.financialSettings = <<SeedSettings(5, 1, 0)>>]
    /\ last = [p \in Callers |->
                  [pc |-> "idle", month |-> Null, settings |-> <<>>,
                   err |-> FALSE, ret |-> <<>>]]

\* getOrCreateForMonth(month) is called (initializeCurrentMonth calls it with
\* the current month)
LazyCall ==
    /\ \E p \in Callers, month \in Months :
          /\ last[p].pc = "idle"
          /\ last' = [last EXCEPT ![p].pc = "getByMonth", ![p].month = month]
    /\ UNCHANGED <<backend, foreignKeys, now, db>>

\* let monthData = await this.getByMonth(month)
LazyGetByMonth ==
    /\ \E p \in Callers :
          /\ last[p].pc = "getByMonth"
          /\ LET monthData == monthlySavingsService_getByMonth(db, last[p].month)
             IN last' = IF monthData # <<>>
                        THEN [last EXCEPT ![p].pc = "done", ![p].ret = monthData]
                        ELSE [last EXCEPT ![p].pc = "select"]
    /\ UNCHANGED <<backend, foreignKeys, now, db>>

\* const settings = await db.select().from(financialSettings).limit(1)
LazySelectSettings ==
    /\ \E p \in Callers :
          /\ last[p].pc = "select"
          /\ last' = [last EXCEPT ![p].pc = "insert",
                                  ![p].settings = financialSettingsService_get(db)]
    /\ UNCHANGED <<backend, foreignKeys, now, db>>

\* this.create({...}): await db.insert(monthlySavings).values(newData), then
\* return await this.getByMonth(data.month)
LazyInsert ==
    /\ \E p \in Callers :
          /\ last[p].pc = "insert"
          /\ LET settings == last[p].settings
                 out == monthlySavingsService_create(db,
                            [month |-> last[p].month,
                             income |-> IF settings = <<>> THEN 0
                                        ELSE settings[1].monthlyIncome,
                             savingsGoal |-> IF settings = <<>> THEN 0
                                             ELSE settings[1].savingsGoal,
                             totalExpenses |-> 0, totalSaved |-> 0], now)
             IN /\ db' = out.db
                /\ last' = IF out.err
                           THEN [last EXCEPT ![p].pc = "done", ![p].err = TRUE]
                           ELSE [last EXCEPT ![p].pc = "done", ![p].ret = out.ret]
    /\ UNCHANGED <<backend, foreignKeys, now>>

NextLazyCreate ==
    Tick \/ LazyCall \/ LazyGetByMonth \/ LazySelectSettings \/ LazyInsert

SpecLazyCreate == InitLazyCreate /\ [][NextLazyCreate]_vars

\* C27: when two calls for a month without a row have both completed, neither
\* rejected and the month has exactly one monthly savings row.
C27_LazyCreateOnce ==
    (\A p \in Callers : last[p].pc = "done") =>
        \A p \in Callers :
            /\ ~last[p].err
            /\ Len(SqlSelect(db, "monthlySavings", "month", last[p].month)) = 1

----------------------------------------------------------------------------
(* Two groceryItemService.create calls on one list in flight.  last[p] is the
   call of caller p: the await it is at, the id it generated and the total
   its updateTotalCost has computed. *)

InitItemRace ==
    /\ backend = "sqlite"
    /\ foreignKeys \in BOOLEAN
    /\ now = T0
    /\ db \in GroceryInits
    /\ last = [p \in Callers |->
                  [pc |-> "idle", id |-> Null, totalCost |-> 0, err |-> FALSE]]

\* create(item) with listId "1": await db.insert(groceryItems).values(newItem)
RaceInsert ==
    /\ \E p \in Callers, item \in NewItems :
          /\ last[p].pc = "idle"
          /\ item.listId = "1"
          /\ LET ins == SqlInsert(db, "groceryItems", ItemDefaults,
                                  Merge(item, [id |-> IdOf(now)]))
             IN /\ db' = ins.db
                /\ last' = IF ins.ok
                           THEN [last EXCEPT ![p].pc = "priceHistory",
                                             ![p].id = IdOf(now)]
                           ELSE [last EXCEPT ![p].pc = "done", ![p].err = TRUE]
    /\ UNCHANGED <<backend, foreignKeys, now>>

\* await priceHistoryService.create({itemId: id, price: item.pricePerUnit})
RacePriceHistory ==
    /\ \E p \in Callers :
          /\ last[p].pc = "priceHistory"
          /\ LET item == SqlSelect(db, "groceryItems", "id", last[p].id)[1]
                 out == priceHistoryService_create(db,
                            [itemId |-> last[p].id, price |-> item.pricePerUnit],
                            now)
             IN /\ db' = out.db
                /\ last' = IF out.err
                           THEN [last EXCEPT ![p].pc = "done", ![p].err = TRUE]
                           ELSE [last EXCEPT ![p].pc = "getByListId"]
    /\ UNCHANGED <<backend, foreignKeys, now>>

\* updateTotalCost: const items = await groceryItemService.getByListId(id),
\* then the sum over them
RaceGetByListId ==
    /\ \E p \in Callers :
          /\ last[p].pc = "getByListId"
          /\ last' = [last EXCEPT
                        ![p].pc = "update",
                        ![p].totalCost =
                            SumOf(groceryItemService_getByListId(db, "1"),
                                  "totalCost")]
    /\ UNCHANGED <<backend, foreignKeys, now, db>>

\* updateTotalCost: await db.update(groceryLists).set({ totalCost })
RaceUpdate ==
    /\ \E p \in Callers :
          /\ last[p].pc = "update"
          /\ LET upd == SqlUpdate(db, "groceryLists", "id", "1",
                                  [totalCost |-> last[p].totalCost])
             IN /\ db' = upd.db
                /\ last' = [last EXCEPT ![p].pc = "done", ![p].err = ~upd.ok]
    /\ UNCHANGED <<backend, foreignKeys, now>>

NextItemRace ==
    Tick \/ RaceInsert \/ RacePriceHistory \/ RaceGetByListId \/ RaceUpdate

SpecItemRace == InitItemRace /\ [][NextItemRace]_vars

\* C26: once two grocery item creates on one list that interleaved at their
\* awaits have both completed, the totalCost of the list is the sum over its
\* items.
C26_InterleavedTotalsAgree ==
    (\A p \in Callers : last[p].pc = "done" /\ ~last[p].err) =>
        \A i \in 1..Len(db.groceryLists) :
            db.groceryLists[i].totalCost
                = SumOf(ItemsOf(db, db.groceryLists[i].id), "totalCost")

============================================================================
